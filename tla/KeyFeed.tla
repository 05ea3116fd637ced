------------------------------ MODULE KeyFeed ------------------------------
(***************************************************************************)
(* What the keyboard service promises to the processes that construct a    *)
(* KeyEvent, with the driver, the IPC calls and the barriers left out.     *)
(*                                                                         *)
(* Key presses are numbered in the order in which they happen.  Every      *)
(* listener is told of presses in that order, once each and never of one   *)
(* that has not happened; what GetRawInputKey returns is one of the        *)
(* presses the listener was told of.  A read before the first press was    *)
(* stored returns the initial 0 and is no step here: that nobody is woken  *)
(* without a press is not part of this promise.                            *)
(***************************************************************************)
EXTENDS Naturals

CONSTANTS Clients,     \* the processes that construct a KeyEvent
          MaxKeys      \* bound on the key presses of a behaviour

Keys == 1..MaxKeys

VARIABLES pressed,     \* number of presses so far
          feed,        \* feed[c]: the presses c was told of
          last         \* last[c]: what c read last, 0 before the first read

vars == <<pressed, feed, last>>

Init ==
  /\ pressed = 0
  /\ feed = [c \in Clients |-> {}]
  /\ last = [c \in Clients |-> 0]

Press ==
  /\ pressed < MaxKeys
  /\ pressed' = pressed + 1
  /\ UNCHANGED <<feed, last>>

\* Press k comes after all that c has heard of.
Follows(c, k) == \A j \in feed[c] : j < k

Tell(c) ==
  \E k \in 1..pressed :
    /\ Follows(c, k)
    /\ feed' = [feed EXCEPT ![c] = @ \cup {k}]
    /\ UNCHANGED <<pressed, last>>

Get(c) ==
  \E k \in feed[c] :
    /\ last' = [last EXCEPT ![c] = k]
    /\ UNCHANGED <<pressed, feed>>

Next == Press \/ \E c \in Clients : Tell(c) \/ Get(c)

Spec == Init /\ [][Next]_vars
=============================================================================
