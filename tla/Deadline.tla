------------------------------ MODULE Deadline ------------------------------
(***************************************************************************)
(* The wall-clock budget of deadlines.py: one Deadline object is created   *)
(* per verify run and handed to every optional stage, which asks it how    *)
(* much time is left.  Time is a natural number of ticks since the         *)
(* deadline was started, so "started" is 0.                                *)
(***************************************************************************)
EXTENDS Naturals

\* Deadline.remaining(): never negative.
Remaining(total, now) == IF now < total THEN total - now ELSE 0

\* Deadline.expired(): no time is left.
Expired(total, now) == Remaining(total, now) = 0

\* Deadline.clamp(stage_seconds).
Clamp(total, now, stage) ==
  IF stage < Remaining(total, now) THEN stage ELSE Remaining(total, now)

\* The idiom "min(cap, deadline.remaining() or cap)" of the stage runners: a
\* spent budget makes remaining() falsy, and the whole cap is used instead.
RemainingOr(total, now, cap) ==
  IF Expired(total, now) THEN cap ELSE Clamp(total, now, cap)
=============================================================================
