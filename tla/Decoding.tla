------------------------------ MODULE Decoding ------------------------------
(***************************************************************************)
(* The decoding of captured frames: CipPairing, whose table is kept between *)
(* frames, and the decoders of Decoders, which keep nothing and see no more *)
(* of a frame than was captured. A network carries one or the other here:  *)
(* a decoder that keeps nothing cannot touch the table.                    *)
(***************************************************************************)
EXTENDS CipPairing, Decoders

CONSTANT Frames     \* the frames of the network

\* A frame is of one of the protocols, with the items of that protocol.
ASSUME FramesAssumption ==
  \A f \in Frames :
    /\ f = [net |-> f.net, vlans |-> f.vlans, trans |-> f.trans, proto |-> f.proto,
            local |-> f.local, items |-> f.items, bad |-> f.bad]
    /\ f.net \in DOMAIN NetHeader /\ f.trans \in DOMAIN TransHeader
    /\ f.vlans \in Nat /\ f.bad \in Nat
    /\ \/ f.proto = "opcua" /\ f.items \in DOMAIN OpcUa
       \/ f.proto = "dns" /\ f.items \in Seq([tag : STRING, name : Nat, size : Nat])
       \/ f.proto \in {"dnp3", "none"}
       \/ f.proto \in DOMAIN Format /\ f.items \in Seq([tag : STRING, size : Nat]) \ {<<>>}

VARIABLES
  carries,    \* what the network carries: "cip" or "frames"
  frame       \* the last frame that was decoded: [sent, captured, said]

vars == <<cipVars, carries, frame>>

NoFrame == [captured |-> 0, said |-> {}]

Init ==
  /\ CipInit
  /\ carries \in {"cip", "frames"}
  /\ frame = NoFrame

\* The first bytes of a frame are captured, perhaps all, and decoded.
Decode ==
  /\ carries = "frames" /\ frame = NoFrame
  /\ \E f \in Frames : \E n \in 0..FrameSize(f) :
       frame' = [sent |-> f, captured |-> n, said |-> parse_ethernet(f, n)]
  /\ UNCHANGED <<cipVars, carries>>

Recorded ==
  /\ frame # NoFrame
  /\ frame' = NoFrame
  /\ UNCHANGED <<cipVars, carries>>

Next ==
  \/ carries = "cip" /\ CipNext /\ UNCHANGED <<carries, frame>>
  \/ Decode
  \/ Recorded

Spec == Init /\ [][Next]_vars

----------------------------------------------------------------------------

\* Decoders that take what there is of a text as the text.
Lenient == {"dhcp", "dcp", "enip", "cip"}

\* A TSAP of more than two bytes that the frame is cut behind the second of.
CutTsap(f, c) ==
  f.proto = "cotp" /\ c.item \in DOMAIN f.items /\ c.got = 2 /\ c.got < f.items[c.item].size

\* Of a frame that is cut, or has a field that does not decode, nothing is said that is
\* not said of the whole frame: no shorter value, but for the last text of the lenient
\* protocols, and a transport, role or source that is less exact ("keep whatever was
\* collected before the failure - those fields were validated as they were read"). The
\* one thing a cut can make up is the last TSAP of a connection: what there is of it is
\* tested for two bytes, not what it says its length is.
CutSaysNoMore ==
  frame # NoFrame =>
    LET f == frame.sent
        whole == parse_ethernet([f EXCEPT !.bad = 0], FrameSize(f))
        last(c) == \A e \in frame.said : e.item <= c.item
    IN \A c \in frame.said :
         \/ CutTsap(f, c) /\ last(c)
         \/ \E d \in whole :
              /\ c.what = d.what /\ c.item = d.item
              /\ \/ c.got = d.got
                 \/ c.got < d.got /\ c.what \in {"transport", "role", "source"}
                 \/ c.got < d.got /\ f.proto \in Lenient /\ last(c)
=============================================================================
