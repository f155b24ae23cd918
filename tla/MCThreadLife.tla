---------------------------- MODULE MCThreadLife -----------------------------
EXTENDS ThreadLife
CONSTANTS h1, h2, h3
TwoHandles == {h1, h2}
ThreeHandles == {h1, h2, h3}
NotAThread == -1

\* The states TLC tells apart: what tooEarly has of threads out of business is read
\* by JoinWaits only, which no run checks, and by no step.
Told == <<stage, system, objects, call, tooEarly \cap InBusiness, abandoned, undefined>>
=============================================================================
