---------------------------- MODULE EchoService ----------------------------
(***************************************************************************)
(* What the multi-thread echo server promises, without queues, threads or  *)
(* descriptors: a connection asks, its requests are answered in order and  *)
(* at most once, and the only replies of others it can see are left-overs  *)
(* of connections that are gone, each at most once and only before its own *)
(* first reply.                                                            *)
(***************************************************************************)
EXTENDS Naturals

CONSTANT Conns

VARIABLES
    up,       \* Conns -> "new", "up" or "gone"
    asked,    \* requests the server has accepted from the connection
    own,      \* how many of them it was answered
    leaked    \* how many of its replies went to another connection

vars == <<up, asked, own, leaked>>

Init ==
    /\ up = [c \in Conns |-> "new"]
    /\ asked = [c \in Conns |-> 0] /\ own = asked /\ leaked = asked

Open(c) ==
    /\ up[c] = "new"
    /\ up' = [up EXCEPT ![c] = "up"]
    /\ UNCHANGED <<asked, own, leaked>>

Drop(c) ==
    /\ up[c] # "gone"
    /\ up' = [up EXCEPT ![c] = "gone"]
    /\ UNCHANGED <<asked, own, leaked>>

Ask(c) ==
    /\ up[c] = "up"
    /\ asked' = [asked EXCEPT ![c] = @ + 1]
    /\ UNCHANGED <<up, own, leaked>>

Answer(c) ==
    /\ up[c] = "up" /\ own[c] < asked[c]
    /\ own' = [own EXCEPT ![c] = @ + 1]
    /\ UNCHANGED <<up, asked, leaked>>

\* A reply meant for d, which is gone, goes to c, which has had none yet.
Leak(d, c) ==
    /\ up[d] = "gone" /\ up[c] = "up" /\ own[c] = 0
    /\ own[d] + leaked[d] < asked[d]
    /\ leaked' = [leaked EXCEPT ![d] = @ + 1]
    /\ UNCHANGED <<up, asked, own>>

Next == \E c \in Conns :
            \/ Open(c) \/ Drop(c) \/ Ask(c) \/ Answer(c)
            \/ \E d \in Conns : Leak(d, c)

Spec == Init /\ [][Next]_vars
=============================================================================
