----------------------------- MODULE Allocator -----------------------------
(***************************************************************************)
(* What the kernel's memory manager promises to the program that calls     *)
(* MyMalloc and MyFree: extents of the arena that are pairwise disjoint,   *)
(* each large enough for its request, and a refusal only when no gap of    *)
(* the arena can hold the request.  Nothing is said about headers, lists   *)
(* or merging: module Heap has those, and implements this one.             *)
(***************************************************************************)
EXTENDS Integers

CONSTANTS
  Arena,        \* the addresses that may be handed out
  Header,       \* bytes of an extent that precede the client's pointer
  Slack,        \* most bytes an extent may have beyond what is needed
  Need(_),      \* bytes an extent must have for a request of n bytes
  Requests,     \* the numbers of bytes clients ask for
  NULL,         \* the pointer that stands for a refusal
  None          \* no request is in progress

VARIABLES
  extent,       \* [address of an extent in use -> its bytes]
  pending,      \* the request in progress, or None
  answer        \* the pointer the last request was answered with

vars == <<extent, pending, answer>>

Span(b, s) == b .. (b + s - 1)

Gap == Arena \ UNION {Span(b, extent[b]) : b \in DOMAIN extent}

Init ==
  /\ extent = [b \in {} |-> 0]
  /\ pending = None
  /\ answer = NULL

Ask(n) ==
  /\ pending = None
  /\ pending' = n
  /\ answer' = NULL
  /\ UNCHANGED extent

(* Any gap that is large enough will do.                                   *)
Grant ==
  /\ pending # None
  /\ pending > 0
  /\ LET gap == Gap IN
     \E b \in gap :
       /\ answer' = b + Header
       /\ \E s \in Need(pending) .. (Need(pending) + Slack) :
            /\ extent' = [x \in DOMAIN extent \cup {b} |-> IF x = b THEN s ELSE extent[x]]
            /\ Span(b, s) \subseteq gap
  /\ pending' = None

(* A request is refused when it asks for nothing, or fits nowhere.         *)
Refuse ==
  /\ pending # None
  /\ LET gap == Gap IN
     pending > 0 => \A b \in gap : ~ (Span(b, Need(pending)) \subseteq gap)
  /\ pending' = None
  /\ answer' = NULL
  /\ UNCHANGED extent

Release(b) ==
  /\ pending = None
  /\ b \in DOMAIN extent
  /\ extent' = [x \in DOMAIN extent \ {b} |-> extent[x]]
  /\ UNCHANGED <<pending, answer>>

Next ==
  \/ \E n \in Requests : Ask(n)
  \/ Grant
  \/ Refuse
  \/ \E b \in Arena : Release(b)

Spec == Init /\ [][Next]_vars
=============================================================================
