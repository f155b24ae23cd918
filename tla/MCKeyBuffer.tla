---------------------------- MODULE MCKeyBuffer -----------------------------
EXTENDS KeyBuffer
CONSTANTS a, move, altC, none
OneKey == {a}
AheadSizes == {0, 4}

\* What is behind the head of the ring, or read from the text, does not matter,
\* nor does the call that was made before.
Live == <<[pGT EXCEPT !.inkeyBuffer = RingKeys(pGT), !.StrBuffer = TextKeys(pGT),
                      !.StrBufferPos = 0],
          Len(pGT.StrBuffer), typeAhead, request, inkey>>
=============================================================================
