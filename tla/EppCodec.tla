-------------------------------- MODULE EppCodec -------------------------------
(***************************************************************************)
(* One direction of an EPP connection: a sender writes messages with       *)
(* EncodeEPP, the network hands the bytes over in pieces of any size, and  *)
(* the listener's bufio.Scanner cuts them into messages again with         *)
(* WireSplit, unmarshals them and types them (EPPListener).                *)
(***************************************************************************)
EXTENDS EppMessages

CONSTANTS
  HeaderSize,   \* bytes of the length that precedes a message (4 in the code)
  MaxToken,     \* bytes the Scanner's buffer holds (64 KB in the code)
  MaxSent,      \* bound: messages that are sent
  Messages      \* bound: messages that may be sent

ASSUME HeaderSizeAssumption == HeaderSize \in Nat \ {0}
ASSUME MaxTokenAssumption == MaxToken \in Nat \ {0}
ASSUME MaxSentAssumption == MaxSent \in Nat
(* What is sent was made by a constructor. *)
ASSUME MessagesAssumption == \A m \in Messages : WellFormed(m)

VARIABLES
  sent,        \* messages written so far
  network,     \* bytes on their way
  buffer,      \* bytes the Scanner holds
  received,    \* messages put on RecvChannel
  listening    \* the listener goroutine runs

vars == <<sent, network, buffer, received, listening>>

(* A part of a message stands for one byte of its XML. *)
Size(m) == Cardinality(DOMAIN m)

(* A byte knows its place, and what it is part of. *)
EncodeEPP(m) ==
  LET n == HeaderSize + Size(m)
  IN  [i \in 1 .. n |-> [size |-> n, msg |-> m, at |-> i]]

(* Faulty variant: it waits for a byte more than the message has.           *)
WireSplitLate(data) ==
  IF Len(data) < HeaderSize \/ Len(data) <= data[1].size
  THEN [advance |-> 0, token |-> <<>>]
  ELSE [advance |-> data[1].size,
        token |-> SubSeq(data, HeaderSize + 1, data[1].size)]

(* Faulty variant: it takes the length for that of the XML alone.           *)
WireSplitShort(data) ==
  IF Len(data) < HeaderSize \/ Len(data) < data[1].size
  THEN [advance |-> 0, token |-> <<>>]
  ELSE [advance |-> data[1].size - HeaderSize,
        token |-> SubSeq(data, HeaderSize + 1, data[1].size)]

WireSplit(data) ==
  IF Len(data) < HeaderSize \/ Len(data) < data[1].size
  THEN [advance |-> 0, token |-> <<>>]
  ELSE [advance |-> data[1].size,
        token |-> SubSeq(data, HeaderSize + 1, data[1].size)]

(* What the listener makes of the bytes of a message, if it does not panic. *)
Parsed(m) == TypedMessage(UnmarshalMessage(m))
Panics(m) == TypedMessagePanics(UnmarshalMessage(m))

(* The token is one whole message, and that is not lost in it. *)
Whole(token) ==
  /\ Len(token) = Size(token[1].msg)
  /\ \A i \in 1 .. Len(token) :
       token[i].msg = token[1].msg /\ token[i].at = HeaderSize + i

Send(m) ==
  /\ Len(sent) < MaxSent
  /\ sent' = Append(sent, m)
  /\ network' = network \o EncodeEPP(m)
  /\ UNCHANGED <<buffer, received, listening>>

(* The Scanner reads when WireSplit finds no message in what it holds. *)
Read(n) ==
  /\ listening
  /\ WireSplit(buffer).advance = 0
  /\ n \in 1 .. Len(network) /\ Len(buffer) + n <= MaxToken
  /\ buffer' = buffer \o SubSeq(network, 1, n)
  /\ network' = SubSeq(network, n + 1, Len(network))
  /\ UNCHANGED <<sent, received, listening>>

(* Faulty variant: a message that cannot be typed is passed over.           *)
ScanPassesOver ==
  /\ listening
  /\ LET split == WireSplit(buffer) IN
     /\ split.advance > 0
     /\ buffer' = SubSeq(buffer, split.advance + 1, Len(buffer))
     /\ received' = IF Panics(split.token[1].msg) THEN received
                    ELSE Append(received, Parsed(split.token[1].msg))
  /\ UNCHANGED <<sent, network, listening>>

(* Bytes that are no message do not parse, and the listener returns; with a *)
(* message that makes TypedMessage panic the whole process ends.            *)
Scan ==
  /\ listening
  /\ LET split == WireSplit(buffer) IN
     /\ split.advance > 0
     /\ buffer' = SubSeq(buffer, split.advance + 1, Len(buffer))
     /\ IF Whole(split.token) /\ ~Panics(split.token[1].msg)
        THEN /\ received' = Append(received, Parsed(split.token[1].msg))
             /\ UNCHANGED listening
        ELSE listening' = FALSE /\ UNCHANGED received
  /\ UNCHANGED <<sent, network>>

(* The buffer is full and holds no message: the Scanner gives up, and the  *)
(* listener returns without a word.                                         *)
TooLong ==
  /\ listening
  /\ Len(buffer) = MaxToken /\ WireSplit(buffer).advance = 0
  /\ listening' = FALSE
  /\ UNCHANGED <<sent, network, buffer, received>>

(* The connection closes: what has not been read is lost. *)
Close ==
  /\ listening
  /\ listening' = FALSE
  /\ network' = <<>> /\ buffer' = <<>>
  /\ UNCHANGED <<sent, received>>

Init ==
  /\ sent = <<>> /\ network = <<>> /\ buffer = <<>> /\ received = <<>>
  /\ listening = TRUE

Next ==
  \/ \E m \in Messages : Send(m)
  \/ \E n \in 1 .. MaxToken : Read(n)
  \/ Scan
  \/ TooLong
  \/ Close

(* The listener's loop goes on reading and scanning; nobody has to send. *)
Fairness == WF_vars(Scan) /\ WF_vars(\E n \in 1 .. MaxToken : Read(n))

Spec == Init /\ [][Next]_vars /\ Fairness

-----------------------------------------------------------------------------
(* Properties *)

(* However the bytes are cut up, what the listener puts out are the sent    *)
(* messages, in order, none twice and none left out, each recognised as     *)
(* what it was sent as.  A poll, whose object TypedMessage does not copy,   *)
(* is the exception.                                                        *)
ReceivedAsSent ==
  /\ Len(received) <= Len(sent)
  /\ \A i \in 1 .. Len(received) :
       IF Has(sent[i], "poll", "plain") THEN MessageType(received[i]) = <<"command">>
       ELSE MessageType(received[i]) = MessageType(sent[i])

(* The listener gives up of its own accord only at a message that is longer *)
(* than its buffer, or that makes TypedMessage panic: the Scanner finds the *)
(* start of a message where the last one ended, and never hands over a part *)
(* of one or of two, wherever the network cut them.                         *)
Fits(m) == HeaderSize + Size(m) <= MaxToken
NextToCome == sent[Len(received) + 1]
GivesUp == (Scan \/ TooLong) /\ ~listening'
NeverTorn ==
  [][GivesUp => /\ Len(received) < Len(sent)
                /\ ~Fits(NextToCome) \/ Panics(NextToCome)]_vars

(* The connection is a channel that keeps the order and loses nothing until *)
(* the listener returns, and hands over nothing that makes it panic.        *)
Readings == [m \in Messages |-> Parsed(m)]
Typable == {m \in Messages : ~Panics(m)}
Channel == INSTANCE MessageChannel
             WITH Readable <- Typable, Reading <- Readings, open <- listening
ImplementsChannel == Channel!Spec

(* The name and the zone an object was sent with are what is read: an       *)
(* update with at most one host to add and one to remove arrives with its   *)
(* lists, whatever travels before and after it.                             *)
ListsArrive ==
  \A i \in 1 .. Len(received) :
    LET update == <<"update", "domain">> IN
    /\ update \in DOMAIN sent[i]
    /\ Len(sent[i][update].add.hosts) <= 1 /\ Len(sent[i][update].rem.hosts) <= 1
    => update \in DOMAIN received[i] /\ received[i][update] = sent[i][update]

(* A message that fits the Scanner's buffer and can be typed, as those      *)
(* before it, comes out unless the connection closes.                       *)
EventuallyReceived ==
  \A i \in 1 .. MaxSent :
    (Len(sent) >= i /\ \A j \in 1 .. i : Fits(sent[j]) /\ ~Panics(sent[j]))
      ~> (Len(received) >= i \/ ~listening)
=============================================================================
