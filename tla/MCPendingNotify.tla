-------------------------- MODULE MCPendingNotify --------------------------
(* Model values for PendingNotify: two devices with two queues each; queue 0
   of device 1 is a manual_recv queue, as the receive queue of the network
   device is.  Two requests in one queue let one be published, and notified,
   while the worker serves the other. *)
EXTENDS PendingNotify

MCManual == {<<1, 0>>}
MCMaxAvail == [x \in Queue |-> IF x = <<1, 1>> THEN 2 ELSE IF x = <<2, 1>> THEN 0 ELSE 1]
=============================================================================
