------------------------------- MODULE MCPublish -------------------------------
(* The limits of the instances of Session and Publish that TLC checks.     *)
EXTENDS Publish

(* 21 stands for the 131072 of loginAsUser.                                *)
LoginAsUser == [channel_max |-> 0, frame_max |-> 21, heartbeat |-> 0]

(* Brokers without a limit and with a smaller one; with a larger one it is *)
(* the client's that counts, as without.                                   *)
Brokers ==
  {[channel_max |-> 3, frame_max |-> 0, heartbeat |-> 0],
   [channel_max |-> 0, frame_max |-> 14, heartbeat |-> 6]}

(* No body, and one that is a single full frame of 21 or three of 14; a    *)
(* header that fits into 14, and one that does not.                        *)
Bodies == {[size |-> 0, header |-> 14], [size |-> 13, header |-> 14], [size |-> 13, header |-> 15]}
=============================================================================
