---------------------------- MODULE MCCommitModes ---------------------------
\* One deployment per question; replicas that get no message are those the
\* quorums can do without.
EXTENDS CommitModes

\* Two participants, one of which may refuse, and a client that asks again; in
\* mode SLOW a piece may come too late, in mode RC two of the three regions
\* take part.
Slow == [mode |-> "SLOW", participants |-> {0, 1}, primary |-> 1,
         live |-> {0, 1}, refusers |-> {<<0, 0>>}, timers |-> TRUE,
         late |-> TRUE]
RC == [Slow EXCEPT !.mode = "RC", !.late = FALSE]
Carousel == [Slow EXCEPT !.mode = "CAROUSEL", !.timers = FALSE]

\* All three replicas, or regions, of one participant.
RCRegions == [RC EXCEPT !.participants = {1}, !.live = Replica,
                        !.refusers = {<<1, 0>>}, !.timers = FALSE]
CarouselReplicas == [Carousel EXCEPT !.participants = {1}, !.live = Replica,
                                     !.refusers = {<<1, 1>>, <<1, 2>>},
                                     !.timers = TRUE]

MCSetup == {Slow, RC, RCRegions, Carousel, CarouselReplicas}
MCSlow == {Slow}
=============================================================================
