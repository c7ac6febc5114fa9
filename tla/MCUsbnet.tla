------------------------------ MODULE MCUsbnet ------------------------------
(* Instances of Usbnet: what may happen at any time, and how often.        *)
EXTENDS Usbnet

Bounds(fault, rescue, open, sleep, link, mtu) ==
  [fault |-> fault, rescue |-> rescue, open |-> open, sleep |-> sleep,
   link |-> link, mtu |-> mtu]

(* A suspension; a fault with a repair that fails; a change of the link; a *)
(* change of the MTU.                                                      *)
OneOfEach == {
  Bounds(0, 0, 1, 1, 0, 0), Bounds(1, 1, 1, 0, 0, 0),
  Bounds(0, 0, 1, 0, 1, 0), Bounds(0, 0, 1, 0, 0, 1)}
=============================================================================
