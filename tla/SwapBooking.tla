---------------------------- MODULE SwapBooking ----------------------------
(***************************************************************************)
(* What the autonomous executor promises about one order, whatever fails:  *)
(* a durable record precedes the broadcast, the broadcast happens at most  *)
(* once, the chain alone decides what became of it, and only a swap that   *)
(* landed is ever booked.                                                  *)
(***************************************************************************)
CONSTANT Orders

VARIABLES
    stage,    \* order -> how far its swap has got
    booked    \* orders with a durable fill

vars == <<stage, booked>>

Stages == {"new", "written", "wired", "landed", "void"}

Init ==
    /\ stage = [o \in Orders |-> "new"]
    /\ booked = {}

Move(o, from, to) ==
    /\ stage[o] = from
    /\ stage' = [stage EXCEPT ![o] = to]
    /\ UNCHANGED booked

\* The signed transaction, or that none will be sent, is on record.
Write(o) == Move(o, "new", "written")

\* The network may have it.
Wire(o) == Move(o, "written", "wired")

\* It executed, or it failed or expired and never will.
Land(o) == Move(o, "wired", "landed")
Void(o) == Move(o, "wired", "void")

\* A landed swap is booked, by the tick or by recovery.
Book(o) ==
    /\ stage[o] = "landed"
    /\ booked' = booked \cup {o}
    /\ UNCHANGED stage

Next == \E o \in Orders : Write(o) \/ Wire(o) \/ Land(o) \/ Void(o) \/ Book(o)

Spec == Init /\ [][Next]_vars
=============================================================================
