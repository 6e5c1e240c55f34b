----------------------------- MODULE Lifecycle -----------------------------
(***************************************************************************)
(* What the event loop promises to the handler of every connection: the    *)
(* handler is made once, goes one way through the stages of its connection *)
(* and is given to Factory::connection_lost at most once, after on_close.  *)
(* Connections are numbered in the order their handlers are made.          *)
(***************************************************************************)
EXTENDS Integers, Sequences

VARIABLE life  \* the stage of every connection so far

\* open; closing: messages are ignored from now on; told: on_close was called, the
\* connection is kept; lost: given to connection_lost, after on_close; refused: given
\* to connection_lost, never having been connected; dropped: never
\* opened and given to nobody, when connect or accept panics, or when connect cannot set
\* an option of its socket.
Stages == {"open", "closing", "told", "lost", "refused", "dropped"}

Births == {"open", "refused", "dropped"}

Later(stage) ==
  CASE stage = "open" -> {"closing", "told", "lost"}
    [] stage = "closing" -> {"told", "lost"}
    [] stage = "told" -> {"lost"}
    [] OTHER -> {}

Init == life = <<>>

\* One connection is made, or none, and others go on; one step may close them all.
Step ==
  /\ life' \in Seq(Stages)
  /\ Len(life') \in {Len(life), Len(life) + 1}
  /\ \A u \in 1..Len(life) : life'[u] \in {life[u]} \cup Later(life[u])
  /\ Len(life') > Len(life) => life'[Len(life')] \in Births

Spec == Init /\ [][Step]_life
=============================================================================
