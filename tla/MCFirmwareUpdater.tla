-------------------------- MODULE MCFirmwareUpdater --------------------------
EXTENDS FirmwareUpdater_proofs, TLC

\* IDs and process copies are interchangeable.
Symmetric == Permutations(Jobs) \cup Permutations(Copies)
=============================================================================
