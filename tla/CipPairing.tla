----------------------------- MODULE CipPairing -----------------------------
(***************************************************************************)
(* EtherNet/IP explicit messaging (ot_scout/cip.py): a reply does not name  *)
(* the object it came from, so a request is remembered until its reply      *)
(* arrives, in one table of the process that every parser shares: the       *)
(* parser thread of a capture and the request threads that import files.    *)
(* Between two operations on the table another parser may run; each single  *)
(* dict operation is atomic.                                                *)
(***************************************************************************)
EXTENDS Naturals, Sequences, FiniteSets

CONSTANTS
  Parsers,      \* threads that decode frames
  Reads,        \* the conversations each of them reads, by address and context
  Targets,      \* what can be asked for: service and path of an Identity request
  PendingMax,   \* _PENDING_MAX
  MaxRouteDepth \* MAX_ROUTE_DEPTH

VARIABLES
  pending,      \* _PENDING: [key, target], in the order of insertion
  parser,       \* what each parser is doing
  outstanding   \* the requests on the wire that are not answered

cipVars == <<pending, parser, outstanding>>

NoTarget == "no target"     \* a request that cannot be followed
NoRequest == "no request"
Unseen == "unseen"          \* a request that no parser could remember

ASSUME CipAssumption ==
  /\ IsFiniteSet(Parsers) /\ Parsers # {}
  /\ \A p \in Parsers : Reads[p] \subseteq [client : STRING, server : STRING, context : Nat]
  /\ Targets \cap {NoTarget, NoRequest, Unseen} = {}
  /\ PendingMax \in Nat \ {0}

Idle == [pc |-> "idle", key |-> <<>>, target |-> NoTarget, size |-> 0,
         victim |-> <<>>, alone |-> TRUE]

CipInit ==
  /\ pending = <<>>
  /\ parser = [p \in Parsers |-> Idle]
  /\ outstanding = [p \in Parsers |-> [k \in Reads[p] |-> NoRequest]]

KeyWithoutContext(k) == <<k.client, k.server>>
Key(k) == <<k.client, k.server, k.context>>

At(key) == {i \in DOMAIN pending : pending[i].key = key}
Without(i) == SubSeq(pending, 1, i - 1) \o SubSeq(pending, i + 1, Len(pending))

\* Parser p goes on as next and leaves the table so. The others that are about to
\* evict from it are no longer alone with it if it has changed.
Step(p, next, table) ==
  /\ pending' = table
  /\ parser' = [q \in Parsers |->
                  IF q = p THEN next
                  ELSE IF parser[q].pc \in {"iter", "next", "del"} /\ table # pending
                  THEN [parser[q] EXCEPT !.alone = FALSE]
                  ELSE parser[q]]

----------------------------------------------------------------------------
(* A request.                                                              *)

\* An Unconnected_Send is unwrapped so many times and no more.
request_target(target, wraps) == IF wraps > MaxRouteDepth THEN NoTarget ELSE target

Wraps == {0, MaxRouteDepth + 1}

\* A client does not use a context again before the answer, or the loss of it.
Request(p, k) ==
  /\ parser[p] = Idle /\ outstanding[p][k] = NoRequest
  /\ \E t \in Targets, wraps \in Wraps :
       LET found == request_target(t, wraps)
       IN IF found = NoTarget
          THEN /\ outstanding' = [outstanding EXCEPT ![p][k] = Unseen]
               /\ UNCHANGED <<pending, parser>>
          ELSE /\ outstanding' = [outstanding EXCEPT ![p][k] = found]
               /\ Step(p, [Idle EXCEPT !.pc = "check", !.key = Key(k), !.target = found], pending)

FullTooLate == Len(pending) > PendingMax
Full == Len(pending) >= PendingMax

Check(p) ==
  /\ parser[p].pc = "check"
  /\ Step(p, [parser[p] EXCEPT !.pc = IF Full THEN "iter" ELSE "store"], pending)
  /\ UNCHANGED outstanding

\* iter(_PENDING) takes note of the size.
Iterate(p) ==
  /\ parser[p].pc = "iter"
  /\ Step(p, [parser[p] EXCEPT !.pc = "next", !.size = Len(pending)], pending)
  /\ UNCHANGED outstanding

\* next(): the table has another size by now, or is empty, or it gives the oldest key.
VictimIsNew(p) == parser[p].key
Victim(p) == Head(pending).key
NextKey(p) ==
  /\ parser[p].pc = "next"
  /\ Step(p, IF Len(pending) # parser[p].size \/ pending = <<>>
             THEN [parser[p] EXCEPT !.pc = "raised", !.size = 0]
             ELSE [parser[p] EXCEPT !.pc = "del", !.size = 0, !.victim = Victim(p)], pending)
  /\ UNCHANGED outstanding

Delete(p) ==
  /\ parser[p].pc = "del"
  /\ LET at == At(parser[p].victim)
     IN \/ /\ at = {}
           /\ Step(p, [parser[p] EXCEPT !.pc = "raised", !.victim = <<>>], pending)
        \/ \E i \in at : Step(p, [parser[p] EXCEPT !.pc = "store", !.victim = <<>>,
                                                  !.alone = TRUE], Without(i))
  /\ UNCHANGED outstanding

\* A key that is present keeps its place.
Store(p) ==
  /\ parser[p].pc = "store"
  /\ LET at == At(parser[p].key)
         entry == [key |-> parser[p].key, target |-> parser[p].target]
     IN Step(p, Idle, IF at = {} THEN Append(pending, entry)
                      ELSE [i \in DOMAIN pending |-> IF i \in at THEN entry ELSE pending[i]])
  /\ UNCHANGED outstanding

\* The exception costs a capture the frame and an import the rest of its file. The
\* request is one that nobody remembers.
Raised(p) ==
  /\ parser[p].pc = "raised"
  /\ outstanding' = [outstanding EXCEPT ![p] =
       [k \in Reads[p] |-> IF Key(k) = parser[p].key /\ @[k] # NoRequest THEN Unseen ELSE @[k]]]
  /\ Step(p, Idle, pending)

----------------------------------------------------------------------------
(* A reply, and frames that are not seen.                                  *)

\* The request that a reply under this key is decoded as the answer to.
PairedWith(k) == {pending[i].target : i \in At(Key(k))}

Reply(p, k) ==
  /\ parser[p] = Idle /\ outstanding[p][k] # NoRequest
  /\ outstanding' = [outstanding EXCEPT ![p][k] = NoRequest]
  /\ LET at == At(Key(k))
     IN \/ at = {} /\ Step(p, Idle, pending)
        \/ \E i \in at : Step(p, Idle, Without(i))

RequestMissed(p, k) ==
  /\ parser[p] = Idle /\ outstanding[p][k] = NoRequest
  /\ outstanding' = [outstanding EXCEPT ![p][k] = Unseen]
  /\ UNCHANGED <<pending, parser>>

ReplyMissed(p, k) ==
  /\ parser[p] = Idle /\ outstanding[p][k] # NoRequest
  /\ outstanding' = [outstanding EXCEPT ![p][k] = NoRequest]
  /\ UNCHANGED <<pending, parser>>

\* Another capture or file: the table is not cleared.
NextSession(p) ==
  /\ parser[p] = Idle
  /\ outstanding' = [outstanding EXCEPT ![p] = [k \in Reads[p] |-> NoRequest]]
  /\ UNCHANGED <<pending, parser>>

CipNext ==
  \E p \in Parsers :
    \/ Check(p) \/ Iterate(p) \/ NextKey(p) \/ Delete(p) \/ Store(p) \/ Raised(p)
    \/ NextSession(p)
    \/ \E k \in Reads[p] : \/ Request(p, k) \/ Reply(p, k)
                           \/ RequestMissed(p, k) \/ ReplyMissed(p, k)

----------------------------------------------------------------------------
(* Properties.                                                             *)

\* The table has one entry for a key, and however the parsers run into each other it
\* is at most one entry per further parser over its limit (_remember: a small bounded
\* table).
PendingBounded ==
  /\ \A i, j \in DOMAIN pending : pending[i].key = pending[j].key => i = j
  /\ Len(pending) <= PendingMax + Cardinality(Parsers) - 1

\* _remember raises nothing on a parser that has the table to itself: a frame or an
\* import is lost only where another parser has changed it in between.
RaisesOnlyWhenShared ==
  \A p \in Parsers : parser[p].pc = "raised" => ~parser[p].alone

\* A reply is decoded as the answer to the request it answers, or not at all, where
\* that request was remembered and no other parser reads the same conversation:
\* whatever was lost before, evicted, or left by an earlier capture.
PairedWithItsRequest ==
  [][\A p \in Parsers : \A k \in Reads[p] :
       /\ Reply(p, k) /\ outstanding[p][k] \in Targets
       /\ \A q \in Parsers \ {p} : k \notin Reads[q]
       => PairedWith(k) \subseteq {outstanding[p][k]}]_cipVars
=============================================================================
