------------------------------- MODULE MCOps -------------------------------
\* Two candidates, and readings in which the passes agree, flip, straddle
\* zero and drift by a tenth.
EXTENDS Ops

MCCandidates == <<"zig", "go">>
MCReadings == {<< <<102, 100>>, <<102, 100>> >>,
               << <<99, 100>>, <<99, 100>> >>,
               << <<112, 110>>, <<109, 110>> >>}
=============================================================================
