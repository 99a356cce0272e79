-------------------------------- MODULE EppWire -------------------------------
(***************************************************************************)
(* The TCP connection between an EPP client and its peer.  Messages travel *)
(* whole here; how they are cut up and put together is EppCodec's.         *)
(***************************************************************************)
EXTENDS EppMessages, SequencesExt

VARIABLES
  link,       \* "down" before Dial, "up", "closed" by the peer, "cut"
  toServer,   \* messages on their way to the peer, its RecvChannel included
  toClient    \* messages on their way to the client

wire == <<link, toServer, toClient>>

WireInit == link = "down" /\ toServer = <<>> /\ toClient = <<>>

(* The network fails: what is on its way is lost. *)
Cut ==
  /\ link = "up"
  /\ link' = "cut" /\ toServer' = <<>> /\ toClient' = <<>>
=============================================================================
