----------------------------- MODULE PacketPoll -----------------------------
(***************************************************************************)
(* The library's own ways to read the same stream, which the program does  *)
(* not use: MQTTPacket_read of MQTTPacket.c, and MQTTPacket_readnb, which  *)
(* a caller polls and which goes on where the last call left it.  The      *)
(* caller's getfn returns as many bytes as there are, up to the number     *)
(* asked for, 0 when there are none, and -1 when it fails.  One step is    *)
(* one call of getfn; a call of MQTTPacket_readnb is the steps up to the   *)
(* next one that returns 0, -1 or a packet.                                *)
(*                                                                         *)
(* A stream is read in one of the ways, `reader` says in which.            *)
(***************************************************************************)
EXTENDS NetBuffer

VARIABLES
  reader,               \* "readPacket", "MQTTPacket_read", "MQTTPacket_readnb"
  trp,                  \* MQTTTransport: state, len, rem_len; or the locals
  failed                \* history: a read has failed

pollVars == <<reader, trp, failed>>
allVars == <<vars, pollVars>>

Transport == [state : 0..2, len : Nat, rem_len : Nat]

PollInit ==
  /\ Init
  /\ reader \in {"readPacket", "MQTTPacket_read", "MQTTPacket_readnb"}
  /\ reader # "readPacket" => ~aligned
  /\ trp = [state |-> 0, len |-> 0, rem_len |-> 0]
  /\ failed = FALSE

\* getfn takes n bytes from the stream.
Gets(n) == n > 0 /\ arrived + n <= Len(Stream) /\ arrived' = arrived + n
Polled(n) == SubSeq(Stream, arrived + 1, arrived + n)

unread == <<aligned, bufVars, at, want, buffer, part, digits, rem_len, last>>

\* The call returns a packet, or -1.
ReturnsPacket(bytes) ==
  /\ packets' = Append(packets, bytes)
  /\ readbuf' = << >> /\ trp' = [trp EXCEPT !.state = 0]
  /\ UNCHANGED failed

ReturnsError ==
  /\ failed' = TRUE
  /\ readbuf' = << >> /\ trp' = [trp EXCEPT !.state = 0]
  /\ UNCHANGED packets
-----------------------------------------------------------------------------
(* A faulty variant of PollRest: a piece is taken for all of the rest.     *)

PollRestOnce ==
  /\ trp.state = 2
  /\ \E n \in 1..trp.rem_len : Gets(n) /\ ReturnsPacket(readbuf \o Polled(n))
  /\ UNCHANGED <<unread, reader>>
-----------------------------------------------------------------------------
PollHeader ==
  /\ trp.state = 0
  /\ Gets(1)
  /\ readbuf' = Polled(1)
  /\ trp' = [state |-> 1, len |-> 0, rem_len |-> 0]
  /\ UNCHANGED <<unread, packets, reader, failed>>

\* decodenb counts the byte before it asks for it.
PollLength ==
  /\ trp.state = 1 /\ trp.len < MAX_NO_OF_REMAINING_LENGTH_BYTES
  /\ Gets(1)
  /\ LET b == Polled(1)[1]
         rem == trp.rem_len + b.digit * Multiplier(Len(readbuf) - 1)
     IN /\ readbuf' = Append(readbuf, b)
        /\ trp' = IF b.more
                    THEN [trp EXCEPT !.len = @ + 1, !.rem_len = rem]
                    ELSE [state |-> 2, len |-> 1 + DigitsOf(rem), rem_len |-> rem]
  /\ UNCHANGED <<unread, packets, reader, failed>>

\* There is no byte: call again.  The byte stays counted.
PollLengthEmpty ==
  /\ trp.state = 1 /\ trp.len < MAX_NO_OF_REMAINING_LENGTH_BYTES
  /\ trp' = [trp EXCEPT !.len = @ + 1]
  /\ UNCHANGED <<unread, arrived, readbuf, packets, reader, failed>>

PollLengthTooLong ==
  /\ trp.state = 1 /\ trp.len = MAX_NO_OF_REMAINING_LENGTH_BYTES
  /\ ReturnsError
  /\ UNCHANGED <<unread, arrived, reader>>

\* A packet without a rest stays here: getfn is asked for no byte and returns
\* 0, which says call again.
PollRest ==
  /\ trp.state = 2
  /\ \E n \in 1..trp.rem_len :
       /\ Gets(n)
       /\ IF n = trp.rem_len
            THEN ReturnsPacket(readbuf \o Polled(n))
            ELSE /\ readbuf' = readbuf \o Polled(n)
                 /\ trp' = [trp EXCEPT !.rem_len = @ - n, !.len = @ + n]
                 /\ UNCHANGED <<packets, failed>>
  /\ UNCHANGED <<unread, reader>>

\* getfn fails; a packet that does not fit into the buffer ends alike.
PollFails ==
  /\ ReturnsError
  /\ UNCHANGED <<unread, arrived, reader>>

MQTTPacket_readnb ==
  PollHeader \/ PollLength \/ PollLengthEmpty \/ PollLengthTooLong
    \/ PollRest \/ PollFails
-----------------------------------------------------------------------------
(* MQTTPacket_read: one call reads a packet, with a getfn that waits.  The *)
(* header and the length are read as by MQTTPacket_readnb.                 *)

\* The result of MQTTPacket_decode is not looked at: a length that ends early
\* is the value so far.  The length field it writes to the buffer is then not
\* the stream's, and is left out.
ReadLengthFails ==
  /\ trp.state = 1
  /\ trp' = [state |-> 2, len |-> 1 + DigitsOf(trp.rem_len), rem_len |-> trp.rem_len]
  /\ readbuf' = SubSeq(readbuf, 1, 1) /\ failed' = TRUE
  /\ UNCHANGED <<unread, arrived, packets, reader>>

\* A packet without a rest is complete: getfn is asked for no byte, as it returns.
ReadRest ==
  /\ trp.state = 2
  /\ Gets(trp.rem_len) \/ (trp.rem_len = 0 /\ UNCHANGED arrived)
  /\ ReturnsPacket(readbuf \o Polled(trp.rem_len))
  /\ UNCHANGED <<unread, reader>>

\* getfn returns a part of the rest: the part is lost.
ReadRestShort ==
  /\ trp.state = 2
  /\ \E n \in 1..(trp.rem_len - 1) : Gets(n)
  /\ ReturnsError
  /\ UNCHANGED <<unread, reader>>

\* A caller is taken to read no other packet after a failure.
MQTTPacket_read ==
  \/ ~failed /\ PollHeader
  \/ PollLength \/ ReadLengthFails \/ ReadRest \/ ReadRestShort
  \/ trp.state # 1 /\ PollFails
-----------------------------------------------------------------------------
ReadNext ==
  \/ reader = "readPacket" /\ Next /\ UNCHANGED pollVars
  \/ reader = "MQTTPacket_read" /\ MQTTPacket_read
  \/ reader = "MQTTPacket_readnb" /\ MQTTPacket_readnb

ReadSpec == PollInit /\ [][ReadNext]_allVars
-----------------------------------------------------------------------------
\* Until a read fails, polls that come back empty and rests that come in pieces
\* change nothing: the packets returned are those of the stream, in order, and
\* the one under way continues them.  MQTTPacket_readnb counts empty polls as
\* bytes of the length field; this says that they can end in -1, but never in a
\* packet of a wrong length.
PolledExactly ==
  reader # "readPacket" /\ ~failed =>
    /\ trp \in Transport
    /\ \A p \in DOMAIN packets : packets[p] = PacketBytes(p)
    /\ LET begun == Len(packets) + 1 IN
       readbuf # << >> => readbuf = SubSeq(PacketBytes(begun), 1, Len(readbuf))
=============================================================================
