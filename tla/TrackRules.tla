----------------------------- MODULE TrackRules -----------------------------
(***************************************************************************)
(* The four rules of a RuleEngine, fed with the tracks of one frame after  *)
(* another.  Every rule keeps a memory per track id, from which it decides *)
(* what is new in a frame; the properties compare what the rules report    *)
(* with what the tracks really did.                                        *)
(*                                                                         *)
(* All four are enabled and use the same class filter; line crossing and   *)
(* counting share a line, intrusion and loitering share a region.  A track *)
(* is its foot point, and its class either passes the filter or does not.  *)
(* cv::pointPolygonTest is represented by the set of points it accepts.    *)
(***************************************************************************)
EXTENDS RuleGeometry, FiniteSets, Functions

CONSTANTS Ids,         \* the ids of tracks
          Filters,     \* the class filters, as the ids of tracks that pass them
          Feet,        \* the foot points of tracks
          Roi,         \* those in the polygon
          Lines,       \* the directed segments, as records [a, b]
          LoiterTime,  \* loiterSeconds
          Gaps,        \* the times between two frames
          MaxTime,     \* bound: the time of the last frame
          MaxCrossings \* bound: the sum of the counters

ASSUME RulesAssumption == /\ IsFiniteSet(Ids)
                          /\ \A filter \in Filters : filter \subseteq Ids
                          /\ Feet \subseteq Points
                          /\ Roi \subseteq Feet
                          /\ LoiterTime \in Nat \ {0}
                          /\ Gaps \subseteq Nat
                          /\ Lines \subseteq [a : Points, b : Points]
                          /\ \A line \in Lines : line.a # line.b

VARIABLES line,     \* the configured line
          accepted, \* the configured class filter
          lastFoot, \* LineCrossingRule::m_lastFoot
          counting, \* CountingRule: m_lastFoot, m_inside, m_countIn, m_countOut
          intruded, \* RoiIntrusionRule::m_inside
          stays,    \* LoiteringRule::m_stays
          events,   \* the events of the last frame
          seen,     \* the tracks of the last frame, by id
          now,      \* the time of the last frame
          crossed,  \* history: direction of the last crossing of a present track
          entered   \* history: when a present track last intruded

rulesVars == <<line, accepted, lastFoot, counting, intruded, stays, events, seen, now,
          crossed, entered>>

Nothing == [id \in {} |-> 0]
NoCount == [lastFoot |-> Nothing, inside |-> {}, countIn |-> 0, countOut |-> 0]
Event(rule, id, what) == [rule |-> rule, track |-> id, what |-> what]

RulesInit ==
    /\ line \in Lines
    /\ accepted \in Filters
    /\ lastFoot = Nothing
    /\ counting = NoCount
    /\ intruded = {}
    /\ stays = Nothing
    /\ events = {}
    /\ seen = Nothing
    /\ now = 0
    /\ crossed = Nothing
    /\ entered = Nothing

\* The direction in which a track of the frame crossed since a rule's memory.
Crossing(memory, tracks, id) ==
    IF id \in DOMAIN memory
    THEN ClassifyCrossing(memory[id], tracks[id], line.a, line.b)
    ELSE "None"

Counted(tracks) == DOMAIN tracks \cap accepted
InRoi(tracks) == {id \in Counted(tracks) : tracks[id] \in Roi}

\* LineCrossingRule::evaluate.  Ids that are missing or filtered are forgotten.
LineEvents(tracks) ==
    {Event("line", id, Crossing(lastFoot, tracks, id)) :
        id \in {i \in Counted(tracks) : Crossing(lastFoot, tracks, i) # "None"}}
LineEvaluate(tracks) == lastFoot' = Restrict(tracks, Counted(tracks))

\* CountingRule::evaluate.
GoesIn(tracks) == {id \in Counted(tracks) \ counting.inside :
                     Crossing(counting.lastFoot, tracks, id) = "Forward"}
\* mutant: any crossing of a track that is in takes it out
GoesOutEither(tracks) == {id \in Counted(tracks) \cap counting.inside :
                            Crossing(counting.lastFoot, tracks, id) # "None"}
GoesOut(tracks) == {id \in Counted(tracks) \cap counting.inside :
                      Crossing(counting.lastFoot, tracks, id) = "Reverse"}
\* mutant: a track that left the scene stays in the set
ForgottenFiltered(tracks) == DOMAIN tracks \ accepted
Forgotten(tracks) == (DOMAIN tracks \ accepted)
                        \cup (DOMAIN counting.lastFoot \ DOMAIN tracks)
CountEvents(tracks) == {Event("count", id, "IN") : id \in GoesIn(tracks)}
                          \cup {Event("count", id, "OUT") : id \in GoesOut(tracks)}
CountEvaluate(tracks) ==
    counting' = [lastFoot |-> Restrict(tracks, Counted(tracks)),
                 inside |-> (counting.inside \ (Forgotten(tracks) \cup GoesOut(tracks)))
                              \cup GoesIn(tracks),
                 countIn |-> counting.countIn + Cardinality(GoesIn(tracks)),
                 countOut |-> counting.countOut + Cardinality(GoesOut(tracks))]

\* RoiIntrusionRule::evaluate.
RoiEvents(tracks) == {Event("roi", id, "intrusion") : id \in InRoi(tracks) \ intruded}
RoiEvaluate(tracks) == intruded' = InRoi(tracks)

\* LoiteringRule::evaluate, at time t.
Stay(id, t) == IF id \in DOMAIN stays THEN stays[id]
               ELSE [entered |-> t, emitted |-> FALSE]
\* mutant: off by one at the threshold
LoitersLate(tracks, t) == {id \in InRoi(tracks) : /\ ~Stay(id, t).emitted
                                                  /\ t - Stay(id, t).entered > LoiterTime}
Loiters(tracks, t) == {id \in InRoi(tracks) : /\ ~Stay(id, t).emitted
                                              /\ t - Stay(id, t).entered >= LoiterTime}
LoiterEvents(tracks, t) == {Event("loiter", id, "loitering") : id \in Loiters(tracks, t)}
LoiterEvaluate(tracks, t) ==
    stays' = [id \in InRoi(tracks) |->
                [Stay(id, t) EXCEPT !.emitted = @ \/ id \in Loiters(tracks, t)]]

\* What the events of this frame add to the history of the tracks.
Remember(tracks, t) ==
    /\ crossed' = [id \in Counted(tracks) |->
                     IF \E e \in LineEvents(tracks) : e.track = id
                     THEN Crossing(lastFoot, tracks, id)
                     ELSE IF id \in DOMAIN crossed THEN crossed[id] ELSE "None"]
    /\ entered' = [id \in InRoi(tracks) |->
                     IF id \in DOMAIN entered /\ Event("roi", id, "intrusion") \notin RoiEvents(tracks)
                     THEN entered[id] ELSE t]

\* RuleEngine::evaluate: every rule in turn, on the same tracks.
Evaluate(tracks, t) ==
    /\ LineEvaluate(tracks)
    /\ CountEvaluate(tracks)
    /\ RoiEvaluate(tracks)
    /\ LoiterEvaluate(tracks, t)
    /\ events' = LineEvents(tracks) \cup CountEvents(tracks)
                    \cup RoiEvents(tracks) \cup LoiterEvents(tracks, t)
    /\ Remember(tracks, t)
    /\ seen' = tracks
    /\ now' = t
    /\ UNCHANGED <<line, accepted>>

\* RuleEngine::reset, at the start of a session and when the mode changes.
ResetRules ==
    /\ lastFoot' = Nothing
    /\ counting' = NoCount
    /\ intruded' = {}
    /\ stays' = Nothing
    /\ events' = {}
    /\ seen' = Nothing
    /\ crossed' = Nothing
    /\ entered' = Nothing
    /\ UNCHANGED <<line, accepted, now>>

Frames == UNION {[present -> Feet] : present \in SUBSET Ids}

RulesNext ==
    \/ \E tracks \in Frames, gap \in Gaps :
        /\ now + gap <= MaxTime
        /\ counting.countIn + counting.countOut < MaxCrossings
        /\ Evaluate(tracks, now + gap)
    \/ ResetRules

RulesSpec == RulesInit /\ [][RulesNext]_rulesVars
------------------------------------------------------------------------------
RulesTypeOK ==
    /\ line \in Lines
    /\ accepted \in Filters
    /\ \E present \in SUBSET Ids : lastFoot \in [present -> Feet]
    /\ \E present \in SUBSET Ids : counting.lastFoot \in [present -> Feet]
    /\ counting.inside \subseteq Ids
    /\ counting.countIn \in Nat
    /\ counting.countOut \in Nat
    /\ intruded \subseteq Ids
    /\ \E present \in SUBSET Ids :
          stays \in [present -> [entered : Nat, emitted : BOOLEAN]]
    /\ seen \in Frames
    /\ now \in Nat

\* A rule remembers nothing of a track that left the scene, so that memory
\* does not grow and an id that is seen anew starts anew.
MemoryOfPresentOnly ==
    /\ lastFoot = Restrict(seen, Counted(seen))
    /\ counting.lastFoot = lastFoot
    /\ counting.inside \subseteq DOMAIN counting.lastFoot
    /\ intruded = InRoi(seen)
    /\ DOMAIN stays = InRoi(seen)

\* The occupancy of the counting rule agrees with the crossings the line rule
\* reports: a track is in exactly when its last crossing since it appeared
\* was a forward one, however often it crossed or went around the line.
OccupancyFollowsCrossings ==
    counting.inside = {id \in DOMAIN crossed : crossed[id] = "Forward"}

\* The counters never show more objects inside than came in and did not leave.
OccupancyIsBacked ==
    counting.countOut + Cardinality(counting.inside) <= counting.countIn

\* Both together: the numbers a counting event shows are explained by crossings.
OccupancyExplained == OccupancyFollowsCrossings /\ OccupancyIsBacked

\* The clock of a stay starts with the intrusion that the other rule reports,
\* and the alarm of a stay is raised exactly when it has lasted long enough.
StayBeginsWithIntrusion ==
    \A id \in DOMAIN stays :
        /\ id \in DOMAIN entered
        /\ stays[id].entered = entered[id]
        /\ stays[id].emitted <=> now - entered[id] >= LoiterTime

\* The segments p1-p2 and q1-q2, which are not parallel, have a common point:
\* the same one at some fraction of each, a multiple of 1/d.
CommonPoint(p1, p2, q1, q2) ==
    LET u == Minus(p2, p1)
        v == Minus(q2, q1)
        d == Cross2(u, v) * Sign(Cross2(u, v))
    IN \E m, n \in 0..d : /\ d * p1.x + m * u.x = d * q1.x + n * v.x
                          /\ d * p1.y + m * u.y = d * q1.y + n * v.y

LeftOf(point) == Orientation(line.a, line.b, point) > 0
RightOf(point) == Orientation(line.a, line.b, point) < 0

\* A frame reports a crossing of a track if and only if its foot moved, since
\* the frame before, from one side of the line strictly to the other on a path
\* that meets the segment; and an intrusion if and only if the foot is in the
\* region and was not, or was not seen, in the frame before.
EventsMatchMovement ==
    [][\A id \in accepted \cap DOMAIN seen' :
        LET met == id \in DOMAIN seen
            foot == seen'[id]
            crosses(From(_), To(_)) ==
                /\ met
                /\ From(seen[id])
                /\ To(foot)
                /\ CommonPoint(seen[id], foot, line.a, line.b)
        IN  /\ Event("line", id, "Forward") \in events' <=> crosses(LeftOf, RightOf)
            /\ Event("line", id, "Reverse") \in events' <=> crosses(RightOf, LeftOf)
            /\ Event("roi", id, "intrusion") \in events'
                 <=> foot \in Roi /\ ~(met /\ seen[id] \in Roi)]_rulesVars
==============================================================================
