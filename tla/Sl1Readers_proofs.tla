------------------------- MODULE Sl1Readers_proofs -------------------------
(***************************************************************************)
(* What an SL1 scene tells of itself, for every scene the loader accepts:  *)
(* milestones, alerts and agents remember ticks.  Each of them is followed *)
(* as of the last tick that its pass has seen.                             *)
(***************************************************************************)
EXTENDS Sl1Runtime_proofs

\* Only before the first tick is it tick 0.
Ticking == stage # "rest" => now > 0

\* A step is a pass of the tick in the order of the stages, or nothing.
LEMMA Turns ==
  ASSUME LoadedTypes, [RuntimeNext]_runtimeVars
  PROVE  /\ now \in Nat
         /\ \/ BeginRuntimeTick /\ stage = "rest" /\ stage' = "advance" /\ now' = now + 1
            \/ /\ now' = now
               /\ \/ /\ RunTransforms /\ stage \in {"advance", "cadence"}
                     /\ stage' \in {"advance", "cadence", "after"}
                  \/ ServeDemand /\ stage = "after" /\ stage' = "judge"
                  \/ Judge /\ stage = "judge" /\ stage' = "show"
                  \/ Show /\ stage = "show" /\ stage' = "decide"
                  \/ LetAgentsDecide /\ stage = "decide" /\ stage' = "mark"
                  \/ MarkMilestones /\ stage = "mark" /\ stage' = "rest"
                  \/ UNCHANGED runtimeVars /\ stage' = stage
<1>1. now \in Nat
  BY SceneAssumption DEF LoadedTypes, TypeOK
<1>2. CASE BeginRuntimeTick
  BY <1>1, <1>2 DEF BeginRuntimeTick, StartTick
<1>3. CASE RunTransforms
  BY <1>1, <1>3 DEF RunTransforms, Process, Advance, Cadence, sceneVars
<1>4. CASE ~BeginRuntimeTick /\ ~RunTransforms
  BY <1>1, <1>4 DEF RuntimeNext, runtimeVars, ServeDemand, Judge, Show, LetAgentsDecide,
                    MarkMilestones, plantAndPressureVars, sceneVars
<1> QED  BY <1>2, <1>3, <1>4

LEMMA TickingStep ==
  ASSUME LoadedTypes, Ticking, [RuntimeNext]_runtimeVars
  PROVE  Ticking'
BY Turns DEF Ticking

-----------------------------------------------------------------------------
(* Milestones: what they remember of the pressures' windows. *)

LastMarked == IF stage = "rest" THEN now ELSE now - 1

\* The first tick a pressure can be at work; tick 0 is never run.
First(p) == Max({1, P(p).at})

LEMMA FirstType ==
  ASSUME Loaded, NEW p \in Pressures
  PROVE  /\ First(p) \in Nat \ {0}
         /\ EndTickOf(p) \in Nat
         /\ \A tick \in Nat \ {0} : P(p).at <= tick <=> First(p) <= tick
<1>1. P(p).at \in Nat /\ P(p).duration \in Nat
  BY LoadedRules
<1> DEFINE at == P(p).at
           one == 1
<1>2. at \in Nat /\ one \in Nat /\ one = 1
  BY <1>1
<1> HIDE DEF at, one
<1>3. {one, at} \subseteq Nat /\ {one, at} # {} /\ \A y \in {one, at} : y <= one + at
  BY <1>2
<1>4. one + at \in Nat
  BY <1>2
<1>5. Max({one, at}) \in {one, at} /\ one <= Max({one, at}) /\ at <= Max({one, at})
  BY <1>3, <1>4, GreatestOf
<1>6. First(p) = Max({one, at})
  BY DEF First, one, at
<1>7. First(p) \in Nat \ {0} /\ \A tick \in Nat \ {0} : at <= tick <=> First(p) <= tick
  BY <1>2, <1>5, <1>6
<1> QED  BY <1>1, <1>7 DEF EndTickOf, at

\* What a milestone remembers of its pressure by tick `last`.
Marks(p, kind, r, last) ==
  LET opened == First(p) < EndTickOf(p) /\ First(p) <= last
      closed == First(p) < EndTickOf(p) /\ EndTickOf(p) <= last
  IN  /\ DOMAIN r = {"fired", "armed"}
      /\ kind = "pressure_activated" =>
           /\ r.armed
           /\ r.fired = IF opened THEN First(p) ELSE 0
      /\ kind = "pressure_deactivated" =>
           /\ r.armed <=> opened
           /\ r.fired = IF closed THEN EndTickOf(p) ELSE 0

Windowed == {m \in Milestones : Trigger(m).kind \in {"pressure_activated", "pressure_deactivated"}}

Marked ==
  \A m \in Windowed :
    Marks(Trigger(m).pressure, Trigger(m).kind, milestones[m], LastMarked)

LEMMA LoadedMilestones ==
  ASSUME Loaded, NEW m \in Windowed
  PROVE  m \in Milestones /\ Trigger(m).pressure \in Pressures
<1>1. AreRules(scene)
  BY RulesAssumption DEF Loaded
<1>2. m \in Milestones /\ Trigger(m).kind \in {"pressure_activated", "pressure_deactivated"}
  BY DEF Windowed
<1>3. IsMilestone(Trigger(m), scene)
  BY <1>1, <1>2 DEF AreRules, Milestones, Trigger
<1> QED  BY <1>2, <1>3 DEF IsMilestone, Pressures

\* One look of a milestone at its pressure.
LEMMA MarkOne ==
  ASSUME LoadedTypes, WindowInv, now \in Nat \ {0}, NEW m \in Windowed, RunMilestones,
         Marks(Trigger(m).pressure, Trigger(m).kind, milestones[m], now - 1)
  PROVE  Marks(Trigger(m).pressure, Trigger(m).kind, milestones'[m], now)
<1> DEFINE p == Trigger(m).pressure
           kind == Trigger(m).kind
           r == milestones[m]
           q == milestones'[m]
           first == First(p)
           end == EndTickOf(p)
<1>1. m \in Milestones /\ p \in Pressures /\ Loaded
  BY LoadedMilestones DEF LoadedTypes
<1>2. first \in Nat \ {0} /\ end \in Nat /\ (P(p).at <= now <=> first <= now)
  BY <1>1, FirstType
<1>3. p \in active <=> first <= now /\ now < end
  BY <1>1, <1>2 DEF WindowInv, PressureFollowsWindow
<1>4. q = IF r.fired # 0 THEN r ELSE Observed(m)
  BY <1>1 DEF RunMilestones
<1>5. DOMAIN r = {"fired", "armed"}
  BY DEF Marks
<1>6. kind \in {"pressure_activated", "pressure_deactivated"}
  BY DEF Windowed
<1>7. CASE kind = "pressure_activated"
  <2>1. /\ r.armed
        /\ r.fired = IF first < end /\ first <= now - 1 THEN first ELSE 0
    BY <1>7 DEF Marks
  <2>2. Observed(m) = IF p \in active THEN [r EXCEPT !.fired = now] ELSE r
    BY <1>7, <2>1 DEF Observed, Satisfied
  <2>3. DOMAIN q = {"fired", "armed"} /\ q.armed
    BY <1>4, <1>5, <2>1, <2>2
  <2>4. q.fired = IF r.fired # 0 THEN r.fired ELSE IF p \in active THEN now ELSE 0
    BY <1>4, <1>5, <2>2
  <2> HIDE DEF q, r, first, end, p, kind
  <2>5. q.fired = IF first < end /\ first <= now THEN first ELSE 0
    BY <1>2, <1>3, <2>1, <2>4
  <2> QED  BY <1>7, <2>3, <2>5 DEF Marks, q, p, kind, first, end
<1>8. CASE kind = "pressure_deactivated"
  <2>1. /\ r.armed <=> first < end /\ first <= now - 1
        /\ r.fired = IF first < end /\ end <= now - 1 THEN end ELSE 0
    BY <1>8 DEF Marks
  <2>2. Observed(m) = IF ~r.armed THEN [r EXCEPT !.armed = p \in active]
                      ELSE IF p \notin active THEN [r EXCEPT !.fired = now] ELSE r
    BY <1>8 DEF Observed, Satisfied
  <2>3. DOMAIN q = {"fired", "armed"}
    BY <1>4, <1>5, <2>2
  <2>4. q.fired = IF r.fired # 0 THEN r.fired ELSE IF r.armed /\ p \notin active THEN now ELSE 0
    BY <1>4, <1>5, <2>2
  <2>5. CASE r.fired # 0 \/ r.armed
    <3>1. q.armed <=> r.armed
      BY <1>4, <1>5, <2>2, <2>5
    <3> HIDE DEF q, r, first, end, p, kind
    <3>2. r.armed
      BY <1>2, <2>1, <2>5
    <3>3. q.armed <=> first < end /\ first <= now
      BY <1>2, <2>1, <3>1, <3>2
    <3>4. q.fired = IF first < end /\ end <= now THEN end ELSE 0
      BY <1>2, <1>3, <2>1, <2>4, <3>2
    <3> QED  BY <1>8, <2>3, <3>3, <3>4 DEF Marks, q, p, kind, first, end
  <2>6. CASE r.fired = 0 /\ ~r.armed
    <3>1. q.armed <=> p \in active
      BY <1>4, <1>5, <2>2, <2>6
    <3> HIDE DEF q, r, first, end, p, kind
    <3>2. q.armed <=> first < end /\ first <= now
      BY <1>2, <1>3, <2>1, <2>6, <3>1
    <3>3. q.fired = IF first < end /\ end <= now THEN end ELSE 0
      BY <1>2, <2>1, <2>4, <2>6
    <3> QED  BY <1>8, <2>3, <3>2, <3>3 DEF Marks, q, p, kind, first, end
  <2> QED  BY <2>5, <2>6
<1> QED  BY <1>6, <1>7, <1>8

LEMMA MarkStep ==
  ASSUME LoadedTypes, WindowInv, Ticking, Marked, [RuntimeNext]_runtimeVars
  PROVE  Marked'
<1>1. UNCHANGED scene
  BY RuntimeKeepsScene
<1>3. ASSUME UNCHANGED milestones, LastMarked' = LastMarked
      PROVE  Marked'
  BY <1>1, <1>3 DEF Marked, Windowed, Milestones, Trigger, Marks, First, EndTickOf, P
<1>4. CASE MarkMilestones
  <2>1. /\ RunMilestones /\ stage = "mark" /\ stage' = "rest" /\ UNCHANGED now /\ now \in Nat
    BY <1>4, SceneAssumption
    DEF MarkMilestones, plantAndPressureVars, sceneVars, LoadedTypes, TypeOK
  <2>2. LastMarked = now - 1 /\ LastMarked' = now /\ now \in Nat \ {0}
    BY <2>1 DEF LastMarked, Ticking
  <2>3. \A m \in Windowed : Marks(Trigger(m).pressure, Trigger(m).kind, milestones'[m], now)
    BY <2>1, <2>2, MarkOne DEF Marked
  <2> QED  BY <1>1, <2>2, <2>3 DEF Marked, Windowed, Milestones, Trigger, Marks, First, EndTickOf, P
<1>5. CASE ~MarkMilestones
  <2>1. UNCHANGED milestones
    BY <1>5 DEF RuntimeNext, runtimeVars, BeginRuntimeTick, RunTransforms, ServeDemand, Judge, Show,
                LetAgentsDecide
  <2>2. LastMarked' = LastMarked
    BY <1>5, Turns DEF LastMarked
  <2> QED  BY <1>3, <2>1, <2>2
<1> QED  BY <1>4, <1>5

LEMMA MarkStart ==
  ASSUME RuntimeInit
  PROVE  Ticking /\ Marked
<1>1. /\ Loaded /\ now = 0 /\ stage = "rest"
      /\ milestones = [m \in Milestones |->
           [fired |-> 0, armed |-> Trigger(m).kind # "pressure_deactivated"]]
  BY RuntimeStart DEF RuntimeInit, LoadedTypes, Init, MilestonesInit
<1> SUFFICES ASSUME NEW m \in Windowed
             PROVE  Marks(Trigger(m).pressure, Trigger(m).kind, milestones[m], LastMarked)
  BY <1>1 DEF Ticking, Marked
<1> DEFINE p == Trigger(m).pressure
<1>2. m \in Milestones /\ p \in Pressures
  BY <1>1, LoadedMilestones
<1>3. First(p) \in Nat \ {0} /\ EndTickOf(p) \in Nat
  BY <1>1, <1>2, FirstType
<1>4. /\ DOMAIN milestones[m] = {"fired", "armed"}
      /\ milestones[m].fired = 0
      /\ milestones[m].armed <=> Trigger(m).kind # "pressure_deactivated"
  BY <1>1, <1>2
<1>5. LastMarked = 0
  BY <1>1 DEF LastMarked
<1> QED  BY <1>3, <1>4, <1>5 DEF Marks

\* At rest the milestones have marked what their tick says.
LEMMA MarkedWindows ==
  ASSUME LoadedTypes, Marked
  PROVE  MilestonesMarkWindow
<1> SUFFICES ASSUME stage = "rest", NEW m \in Windowed
             PROVE  LET t == Trigger(m)
                        first == Max({1, P(t.pressure).at})
                        tick == IF t.kind = "pressure_activated" THEN first ELSE EndTickOf(t.pressure)
                    IN  milestones[m].fired =
                          IF first < EndTickOf(t.pressure) /\ tick <= now THEN tick ELSE 0
  BY DEF MilestonesMarkWindow, Windowed
<1>1. Marks(Trigger(m).pressure, Trigger(m).kind, milestones[m], now)
  BY DEF Marked, LastMarked
<1>2. Trigger(m).kind \in {"pressure_activated", "pressure_deactivated"}
  BY DEF Windowed
<1> QED  BY <1>1, <1>2 DEF Marks, First

-----------------------------------------------------------------------------
(***************************************************************************)
(* Alerts: since when they fire.  One that watches the freshness of a      *)
(* single thing follows from the tick its freshest copy was made.          *)
(***************************************************************************)
LastShown == IF stage \in {"decide", "mark", "rest"} THEN now ELSE now - 1

Watch(a) == scene.metrics[scene.alerts[a].metric]

Watched(a) == scene.dashboards[Watch(a).dashboard].depends

Threshold(a) == scene.alerts[a].predicate.threshold

Watching ==
  {a \in Alerts : /\ scene.alerts[a].predicate.kind = "gt"
                  /\ Watch(a).kind = "dashboard_freshness"
                  /\ Cardinality(Watched(a)) = 1}

\* `made` is the tick of the freshest copy in these slots.
IsLatest(slots, made) ==
  /\ \E s \in Dated(slots) : freshness[s].set = made
  /\ \A s \in Dated(slots) : freshness[s].set <= made

\* What an alert tells by tick `last`.  Of copies made later it says nothing.
Tells(since, slots, threshold, last) ==
  /\ Dated(slots) = {} => since = 0
  /\ \A made \in Nat : IsLatest(slots, made) /\ made <= last =>
       since = IF last - made <= threshold THEN 0 ELSE made + threshold + 1

Told ==
  \A a \in Watching : \A slots \in Watched(a) :
    Tells(alerts[a], slots, Threshold(a), LastShown)

LEMMA LoadedAlerts ==
  ASSUME Loaded, NEW a \in Watching
  PROVE  /\ a \in Alerts
         /\ scene.alerts[a].metric \in Metrics
         /\ Watch(a).dashboard \in Dashboards
         /\ Threshold(a) \in Nat
         /\ \E slots : Watched(a) = {slots} /\ slots \subseteq Slots
<1>1. AreRules(scene)
  BY RulesAssumption DEF Loaded
<1>2. a \in Alerts /\ scene.alerts[a].predicate.kind = "gt"
  BY DEF Watching
<1>3. scene.alerts[a].metric \in Metrics /\ Threshold(a) \in Nat
  BY <1>1, <1>2 DEF AreRules, Alerts, IsAlert, Metrics, Threshold
<1>4. Watch(a).kind = "dashboard_freshness" /\ Cardinality(Watched(a)) = 1
  BY DEF Watching
<1>5. IsMetric(Watch(a), scene)
  BY <1>1, <1>3 DEF AreRules, Metrics, Watch
<1>6. Watch(a).dashboard \in Dashboards
  BY <1>4, <1>5 DEF IsMetric, Dashboards
<1>7. IsDashboard(scene.dashboards[Watch(a).dashboard])
  BY <1>1, <1>6 DEF AreRules, Dashboards
<1>8. IsFiniteSet(Watched(a)) /\ UNION Watched(a) \subseteq Slots
  BY <1>7 DEF IsDashboard, Watched
<1>9. PICK slots : Watched(a) = {slots}
  BY <1>4, <1>8, FS_Singleton
<1> QED  BY <1>2, <1>3, <1>6, <1>8, <1>9

\* The age of one thing is that of its freshest copy.
LEMMA AgeOfOne ==
  ASSUME LoadedTypes, FreshnessTellsAge, NEW d, NEW slots \in SUBSET Slots,
         scene.dashboards[d].depends = {slots}
  PROVE  /\ HasData(d) <=> Dated(slots) # {}
         /\ HasData(d) => \E made \in Nat : /\ IsLatest(slots, made) /\ made <= now
                                            /\ Age(d) = now - made
<1>1. HasData(d) <=> Dated(slots) # {}
  BY DEF HasData
<1> SUFFICES ASSUME Dated(slots) # {}
             PROVE  \E made \in Nat : /\ IsLatest(slots, made) /\ made <= now
                                      /\ Age(d) = now - made
  BY <1>1
<1> DEFINE ages == {now - freshness[s].set : s \in Dated(slots)}
           none == 0
<1>2. now \in Nat
  BY SceneAssumption DEF LoadedTypes, TypeOK
<1>3. \A s \in Dated(slots) : freshness[s].set \in Nat /\ freshness[s].set <= now
  BY PastFreshness DEF Dated, LoadedTypes
<1>4. ages \subseteq Nat
  <2>1. \A s \in Dated(slots) : now - freshness[s].set \in Nat
    BY <1>2, <1>3
  <2> QED  BY <2>1
<1>5. ages # {}
  OBVIOUS
<1>6. Min(ages) \in ages /\ \A y \in ages : Min(ages) <= y
  BY <1>4, <1>5, LeastOf
<1>7. PICK s \in Dated(slots) : Min(ages) = now - freshness[s].set
  BY <1>6
<1> DEFINE made == freshness[s].set
<1>8. made \in Nat /\ made <= now
  BY <1>3
<1>9. \A x \in Dated(slots) : freshness[x].set <= made
  <2> TAKE x \in Dated(slots)
  <2>1. now - made <= now - freshness[x].set /\ freshness[x].set \in Nat
    BY <1>3, <1>6, <1>7
  <2> QED  BY <1>2, <1>8, <2>1
<1>10. Age(d) = Max({none} \union {Min(ages)})
  <2>1. {Min({now - freshness[x].set : x \in Dated(own)}) : own \in {slots}} = {Min(ages)}
    OBVIOUS
  <2> QED  BY <2>1 DEF Age
<1> DEFINE age == Min(ages)
<1>11. age \in Nat /\ none \in Nat /\ none <= age
  BY <1>4, <1>6
<1>12. Age(d) = Max({none} \union {age})
  BY <1>10
<1> HIDE DEF age, none
<1>13. Max({none} \union {age}) = age
  <2>1. {none} \union {age} \subseteq Nat /\ \A y \in {none} \union {age} : y <= age
    BY <1>11
  <2>2. /\ Max({none} \union {age}) \in {none} \union {age}
        /\ age <= Max({none} \union {age})
    BY <1>11, <2>1, GreatestOf
  <2> QED  BY <1>11, <2>1, <2>2
<1>14. Age(d) = now - made
  BY <1>7, <1>12, <1>13 DEF age
<1>15. IsLatest(slots, made)
  BY <1>9 DEF IsLatest
<1> QED  BY <1>8, <1>14, <1>15

\* A step leaves a slot as old as it was, or fills it now.
LEMMA FreshnessMoves ==
  ASSUME LoadedTypes, [RuntimeNext]_runtimeVars, NEW s \in Slots
  PROVE  \/ /\ freshness'[s].kind = "no_data" <=> freshness[s].kind = "no_data"
            /\ freshness'[s].set = freshness[s].set
         \/ RunTransforms /\ freshness'[s].kind # "no_data" /\ freshness'[s].set = now
<1>1. TypeOK /\ Loaded
  BY DEF LoadedTypes
<1>2. CASE BeginRuntimeTick
  <2>1. freshness' = Aged(now + 1)
    BY <1>2 DEF BeginRuntimeTick, StartTick
  <2>2. /\ freshness[s].kind \in {"no_data", "ok", "stale"}
        /\ freshness[s] = [kind |-> freshness[s].kind, set |-> freshness[s].set]
    BY <1>1 DEF TypeOK, Freshness
  <2>3. freshness'[s] = IF freshness[s].kind = "ok" /\ Expired(s, now + 1)
                        THEN [kind |-> "stale", set |-> freshness[s].set] ELSE freshness[s]
    BY <2>1, <2>2 DEF Aged
  <2> QED  BY <2>2, <2>3
<1>3. CASE RunTransforms
  <2>1. freshness'[s] \in {freshness[s], [kind |-> "ok", set |-> now]}
    BY <1>1, <1>3, ProcessFreshness DEF RunTransforms
  <2> QED  BY <1>3, <2>1
<1>4. CASE ~BeginRuntimeTick /\ ~RunTransforms
  <2>1. UNCHANGED freshness
    BY <1>4 DEF RuntimeNext, runtimeVars, ServeDemand, Judge, Show, LetAgentsDecide,
                MarkMilestones, plantAndPressureVars, plantVars
  <2> QED  BY <2>1
<1> QED  BY <1>2, <1>3, <1>4

\* Between two looks at it an alert goes on to tell what it told.
LEMMA TellsOn ==
  ASSUME NEW slots, NEW since, NEW threshold, NEW last \in Int, Tells(since, slots, threshold, last),
         \A s \in slots :
           \/ /\ freshness'[s].kind = "no_data" <=> freshness[s].kind = "no_data"
              /\ freshness'[s].set = freshness[s].set
           \/ freshness'[s].kind # "no_data" /\ freshness'[s].set \in Nat /\ freshness'[s].set > last
  PROVE  /\ Dated(slots)' = {} => since = 0
         /\ \A made \in Nat : IsLatest(slots, made)' /\ made <= last =>
              since = IF last - made <= threshold THEN 0 ELSE made + threshold + 1
<1>1. \A s \in slots :
        s \in Dated(slots)' => \/ s \in Dated(slots) /\ freshness'[s].set = freshness[s].set
                               \/ freshness'[s].set \in Nat /\ freshness'[s].set > last
  BY DEF Dated
<1>2. Dated(slots) \subseteq Dated(slots)' /\ Dated(slots)' \subseteq slots
  BY DEF Dated
<1>3. Dated(slots)' = {} => since = 0
  BY <1>2 DEF Tells
<1>4. ASSUME NEW made \in Nat, IsLatest(slots, made)', made <= last
      PROVE  since = IF last - made <= threshold THEN 0 ELSE made + threshold + 1
  <2>1. /\ \E s \in Dated(slots)' : freshness'[s].set = made
        /\ \A s \in Dated(slots)' : freshness'[s].set <= made
    BY <1>4 DEF IsLatest
  <2>2. \A s \in Dated(slots)' : s \in Dated(slots) /\ freshness'[s].set = freshness[s].set
    <3> TAKE s \in Dated(slots)'
    <3>1. freshness'[s].set <= made
      BY <2>1
    <3>2. ~(freshness'[s].set \in Nat /\ freshness'[s].set > last)
      BY <1>4, <3>1
    <3> QED  BY <1>1, <1>2, <3>2
  <2>3. IsLatest(slots, made)
    BY <1>2, <2>1, <2>2 DEF IsLatest
  <2> QED  BY <1>4, <2>3 DEF Tells
<1> QED  BY <1>3, <1>4

\* One look of an alert at its thing.
LEMMA TellOne ==
  ASSUME LoadedTypes, FreshnessTellsAge, now \in Nat \ {0}, NEW a \in Watching,
         NEW slots \in Watched(a), RunObservability,
         Tells(alerts[a], slots, Threshold(a), now - 1)
  PROVE  Tells(alerts'[a], slots, Threshold(a), now)
<1> DEFINE d == Watch(a).dashboard
           threshold == Threshold(a)
           firing == HasData(d) /\ Age(d) > threshold
<1>1. /\ a \in Alerts /\ scene.alerts[a].metric \in Metrics /\ threshold \in Nat
      /\ Watched(a) = {slots} /\ slots \subseteq Slots
      /\ Watch(a).kind = "dashboard_freshness" /\ scene.alerts[a].predicate.kind = "gt"
  BY LoadedAlerts DEF LoadedTypes, Watching
<1>2. /\ HasData(d) <=> Dated(slots) # {}
      /\ HasData(d) => \E made \in Nat : /\ IsLatest(slots, made) /\ made <= now
                                         /\ Age(d) = now - made
  BY <1>1, AgeOfOne DEF Watched
<1>3. metrics'[scene.alerts[a].metric] =
        IF HasData(d) THEN [kind |-> "ok", value |-> Age(d)] ELSE NoData
  BY <1>1 DEF RunObservability, MetricState, Watch
<1>4. alerts'[a] = AlertState(a, metrics'[scene.alerts[a].metric])
  BY <1>1 DEF RunObservability
<1>5. alerts'[a] = IF firing THEN IF alerts[a] = 0 THEN now ELSE alerts[a] ELSE 0
  BY <1>1, <1>3, <1>4 DEF AlertState, Fires, NoData, Threshold
<1> HIDE DEF d, threshold
<1>6. CASE Dated(slots) = {}
  BY <1>2, <1>5, <1>6 DEF Tells, IsLatest
<1>7. CASE Dated(slots) # {}
  <2>1. PICK made \in Nat : IsLatest(slots, made) /\ made <= now /\ Age(d) = now - made
    BY <1>2, <1>7
  <2>2. made <= now - 1 =>
          alerts[a] = IF now - 1 - made <= threshold THEN 0 ELSE made + threshold + 1
    BY <2>1 DEF Tells, threshold
  <2>3. firing <=> now - made > threshold
    BY <1>2, <1>7, <2>1
  <2> HIDE DEF firing
  <2>4. alerts'[a] = IF now - made <= threshold THEN 0 ELSE made + threshold + 1
    BY <1>1, <1>5, <2>1, <2>2, <2>3
  <2>5. \A other \in Nat : IsLatest(slots, other) => other = made
    BY <2>1 DEF IsLatest
  <2> QED  BY <1>7, <2>4, <2>5 DEF Tells, threshold
<1> QED  BY <1>6, <1>7

LEMMA TellStep ==
  ASSUME LoadedTypes, FreshnessTellsAge, Ticking, Told, [RuntimeNext]_runtimeVars
  PROVE  Told'
<1>1. UNCHANGED scene /\ Loaded /\ now \in Nat
  BY RuntimeKeepsScene, SceneAssumption DEF LoadedTypes, TypeOK
<1>2. /\ Watching' = Watching
      /\ \A a \in Watching : Watched(a)' = Watched(a) /\ Threshold(a)' = Threshold(a)
  BY <1>1 DEF Watching, Watched, Watch, Threshold, Alerts
<1>3. CASE Show
  <2>1. /\ RunObservability /\ UNCHANGED <<now, freshness>>
        /\ stage = "show" /\ stage' = "decide"
    BY <1>3 DEF Show, plantAndPressureVars, sceneVars, plantVars
  <2>2. LastShown = now - 1 /\ LastShown' = now /\ now \in Nat \ {0}
    BY <1>1, <2>1 DEF LastShown, Ticking
  <2>3. \A a \in Watching : \A slots \in Watched(a) :
          Tells(alerts'[a], slots, Threshold(a), now)
    BY <2>1, <2>2, TellOne DEF Told
  <2> QED  BY <1>2, <2>1, <2>2, <2>3 DEF Told, Tells, IsLatest, Dated
<1>4. CASE ~Show
  <2>1. UNCHANGED alerts
    BY <1>4 DEF RuntimeNext, runtimeVars, BeginRuntimeTick, RunTransforms, ServeDemand, Judge,
                LetAgentsDecide, MarkMilestones, shownVars
  <2>2. LastShown' = LastShown /\ LastShown \in Int /\ (RunTransforms => LastShown = now - 1)
    <3>1. LastShown' = LastShown
      BY <1>4, Turns DEF LastShown
    <3>2. LastShown \in Int
      BY <1>1 DEF LastShown
    <3>3. RunTransforms => stage \in {"advance", "cadence"}
      BY DEF RunTransforms, Process, Advance, Cadence
    <3> QED  BY <3>1, <3>2, <3>3 DEF LastShown
  <2> SUFFICES ASSUME NEW a \in Watching, NEW slots \in Watched(a)
               PROVE  Tells(alerts[a], slots, Threshold(a), LastShown)'
    BY <1>2 DEF Told
  <2>3. slots \subseteq Slots /\ Tells(alerts[a], slots, Threshold(a), LastShown)
    BY <1>1, LoadedAlerts DEF Told
  <2>4. \A s \in slots :
          \/ /\ freshness'[s].kind = "no_data" <=> freshness[s].kind = "no_data"
             /\ freshness'[s].set = freshness[s].set
          \/ freshness'[s].kind # "no_data" /\ freshness'[s].set \in Nat /\ freshness'[s].set > LastShown
    <3> TAKE s \in slots
    <3>1. CASE RunTransforms /\ freshness'[s].kind # "no_data" /\ freshness'[s].set = now
      BY <1>1, <2>2, <3>1
    <3> QED  BY <2>3, <3>1, FreshnessMoves
  <2>5. /\ Dated(slots)' = {} => alerts[a] = 0
        /\ \A made \in Nat : IsLatest(slots, made)' /\ made <= LastShown =>
             alerts[a] = IF LastShown - made <= Threshold(a) THEN 0 ELSE made + Threshold(a) + 1
    BY <2>2, <2>3, <2>4, TellsOn
  <2> QED  BY <1>2, <2>1, <2>2, <2>5 DEF Tells
<1> QED  BY <1>3, <1>4

LEMMA TellStart ==
  ASSUME RuntimeInit
  PROVE  Told
<1>1. /\ Loaded /\ now = 0 /\ stage = "rest" /\ \A a \in Alerts : alerts[a] = 0
  BY RuntimeStart DEF RuntimeInit, LoadedTypes, Init, ObservabilityInit
<1> SUFFICES ASSUME NEW a \in Watching, NEW slots \in Watched(a)
             PROVE  Tells(alerts[a], slots, Threshold(a), LastShown)
  BY DEF Told
<1>2. alerts[a] = 0 /\ Threshold(a) \in Nat /\ LastShown = 0
  BY <1>1, LoadedAlerts DEF LastShown
<1> QED  BY <1>2 DEF Tells

\* At rest an alert tells since when its thing has been too old.
LEMMA ToldSince ==
  ASSUME LoadedTypes, FreshnessTellsAge, Told
  PROVE  AlertTellsSince
<1> SUFFICES ASSUME stage = "rest", NEW a \in Watching
             PROVE  LET d == Watch(a).dashboard IN
                    alerts[a] =
                      IF now = 0 \/ ~HasData(d) THEN 0
                      ELSE LET late == Age(d) - Threshold(a) IN
                           IF late <= 0 THEN 0 ELSE now - late + 1
  BY DEF AlertTellsSince, Watching, Watch, Watched, Threshold
<1> DEFINE d == Watch(a).dashboard
           threshold == Threshold(a)
<1>1. /\ threshold \in Nat
      /\ \E slots : Watched(a) = {slots} /\ slots \subseteq Slots
  BY LoadedAlerts DEF LoadedTypes
<1>2. PICK slots : Watched(a) = {slots} /\ slots \subseteq Slots
  BY <1>1
<1>3. Tells(alerts[a], slots, threshold, now)
  BY <1>2 DEF Told, LastShown
<1>4. /\ HasData(d) <=> Dated(slots) # {}
      /\ HasData(d) => \E made \in Nat : /\ IsLatest(slots, made) /\ made <= now
                                         /\ Age(d) = now - made
  BY <1>2, AgeOfOne DEF Watched
<1>5. now \in Nat
  BY SceneAssumption DEF LoadedTypes, TypeOK
<1> HIDE DEF d, threshold
<1>6. CASE ~HasData(d)
  BY <1>3, <1>4, <1>6 DEF Tells, d
<1>7. CASE HasData(d)
  <2>1. PICK made \in Nat : IsLatest(slots, made) /\ made <= now /\ Age(d) = now - made
    BY <1>4, <1>7
  <2>2. alerts[a] = IF now - made <= threshold THEN 0 ELSE made + threshold + 1
    BY <1>3, <2>1 DEF Tells
  <2>3. alerts[a] = IF now = 0 THEN 0
                    ELSE IF Age(d) - threshold <= 0 THEN 0 ELSE now - (Age(d) - threshold) + 1
    BY <1>1, <1>5, <2>1, <2>2
  <2> QED  BY <1>7, <2>3 DEF d, threshold
<1> QED  BY <1>6, <1>7

-----------------------------------------------------------------------------
(***************************************************************************)
(* Agents: when they decide, and how long each leaves demands alone.       *)
(***************************************************************************)
Interval(a) == scene.agents[a].interval
Cooldown(a) == scene.agents[a].cooldown

\* The ticks of an agent's throttles.
Acted(a) == {t.at : t \in {x \in throttles : x.agent = a}}

\* The rhythm of the agents as of tick `last`.
Rhythm(last) ==
  /\ \A a \in Agents :
       /\ agents[a].last = last - (last % Interval(a))
       /\ agents[a].cooldown =
            IF Acted(a) = {} \/ Cooldown(a) = 0 THEN 0 ELSE Max(Acted(a)) + Cooldown(a)
  /\ \A t \in throttles : t.agent \in Agents /\ t.at \in Nat /\ t.at <= last
  /\ \A t, u \in throttles :
       t.agent = u.agent /\ t.at < u.at => u.at - t.at >= Cooldown(t.agent)

LEMMA LoadedAgents ==
  ASSUME Loaded, NEW a \in Agents
  PROVE  Interval(a) \in Nat \ {0} /\ Cooldown(a) \in Nat
<1>1. AreRules(scene)
  BY RulesAssumption DEF Loaded
<1>2. IsAgent(scene.agents[a], scene)
  BY <1>1 DEF AreRules, Agents
<1> QED  BY <1>2 DEF IsAgent, Interval, Cooldown

\* The remainder of the next number.
LEMMA NextRemainder ==
  ASSUME NEW c \in Nat \ {0}, NEW n \in Nat
  PROVE  /\ n % c \in 0 .. c - 1
         /\ n % c <= n
         /\ (n + 1) % c = IF (n % c) + 1 = c THEN 0 ELSE (n % c) + 1
<1> DEFINE q == n \div c
           r == n % c
           p == (n + 1) \div c
           s == (n + 1) % c
<1>1. /\ q \in Int /\ r \in 0 .. c - 1 /\ n = c * q + r
      /\ p \in Int /\ s \in 0 .. c - 1 /\ n + 1 = c * p + s
  OBVIOUS
<1>2. q \in Nat
  OBVIOUS
<1> HIDE DEF p, q, r, s
<1>3. c * q \in Nat
  BY <1>2
<1>4. r <= n
  BY <1>1, <1>3
<1>5. CASE r + 1 < c
  <2>1. r + 1 \in 0 .. c - 1 /\ c * p + s = c * q + (r + 1)
    BY <1>1, <1>5
  <2>2. s = r + 1
    BY <1>1, <2>1, DivisionUnique
  <2> QED  BY <1>1, <1>4, <1>5, <2>2 DEF r, s
<1>6. CASE r + 1 = c
  <2>1. 0 \in 0 .. c - 1 /\ c * p + s = c * (q + 1) + 0 /\ q + 1 \in Int
    <3>1. c * (q + 1) = c * q + c
      BY <1>1
    <3> QED  BY <1>1, <1>6, <3>1
  <2>2. s = 0
    BY <1>1, <2>1, DivisionUnique
  <2> QED  BY <1>1, <1>4, <1>6, <2>2 DEF r, s
<1> QED  BY <1>1, <1>5, <1>6

\* An agent fires at the multiples of its interval.
LEMMA FiresOnTime ==
  ASSUME Loaded, now \in Nat \ {0}, NEW a \in Agents,
         agents[a].last = (now - 1) - ((now - 1) % Interval(a))
  PROVE  /\ ShouldFire(a) <=> now % Interval(a) = 0
         /\ (IF ShouldFire(a) THEN now ELSE agents[a].last) = now - (now % Interval(a))
<1> DEFINE c == Interval(a)
           n == now - 1
           r == n % c
           s == now % c
           last == agents[a].last
<1>1. c \in Nat \ {0} /\ n \in Nat /\ n + 1 = now
  BY LoadedAgents
<1>2. ShouldFire(a) <=> IF last = 0 THEN s = 0 ELSE now >= last + c
  BY DEF ShouldFire, Interval
<1>3. r \in 0 .. c - 1 /\ r <= n /\ (n + 1) % c = IF r + 1 = c THEN 0 ELSE r + 1
  <2> HIDE DEF c, n
  <2> QED  BY <1>1, NextRemainder
<1>4. s = IF r + 1 = c THEN 0 ELSE r + 1
  BY <1>1, <1>3
<1>5. last = n - r
  OBVIOUS
<1> HIDE DEF c, n, r, s, last
<1>6. ShouldFire(a) <=> s = 0
  BY <1>1, <1>2, <1>3, <1>4, <1>5
<1>7. (IF ShouldFire(a) THEN now ELSE last) = now - s
  BY <1>1, <1>3, <1>4, <1>5, <1>6
<1> QED  BY <1>6, <1>7 DEF s, c, last

\* The greatest of the numbers up to one of them is that one.
LEMMA GreatestIs ==
  ASSUME NEW S, S \subseteq Nat, NEW n \in S, \A y \in S : y <= n
  PROVE  Max(S) = n
<1>1. n \in Nat
  OBVIOUS
<1>2. Max(S) \in S /\ n <= Max(S)
  BY <1>1, GreatestOf
<1>3. Max(S) \in Nat /\ Max(S) <= n
  BY <1>2
<1> QED  BY <1>1, <1>2, <1>3

LEMMA AgentFields ==
  ASSUME NEW r, NEW x, NEW y, NEW z, r = [last |-> x, cooldown |-> y, llm_disabled |-> z]
  PROVE  r.last = x /\ r.cooldown = y
OBVIOUS

\* The agents decide: those whose proposals are accepted have acted now.
LEMMA DecideShape ==
  ASSUME NEW proposal \in [Asked -> {{}} \union {{p} : p \in Proposals}], Decide(proposal)
  PROVE  \E applied \in SUBSET Agents :
           /\ \A a \in applied : now >= agents[a].cooldown
           /\ \A a \in Agents :
                /\ agents'[a].last = IF ShouldFire(a) THEN now ELSE agents[a].last
                /\ agents'[a].cooldown =
                     IF a \in applied /\ Cooldown(a) > 0
                     THEN now + Cooldown(a) ELSE agents[a].cooldown
           /\ throttles \subseteq throttles'
           /\ \A t \in throttles' : t \in throttles \/ (t.agent \in applied /\ t.at = now)
           /\ \A a \in applied : \E t \in throttles' : t.agent = a /\ t.at = now
<1> DEFINE applied == {a \in Asked : \E p \in proposal[a] : Accepted(a, p)}
           chosen(a) == CHOOSE p \in proposal[a] : TRUE
           new(a) == [agent |-> a, demand |-> chosen(a).demand, at |-> now, pause |-> chosen(a).pause]
           last(a) == IF a \in Firing THEN now ELSE agents[a].last
           cooldown(a) == IF a \in Asked /\ proposal[a] # {}
                          THEN CooldownAfter(a, a \in applied) ELSE agents[a].cooldown
           disabled(a) == agents[a].llm_disabled \/ a \in Firing \ Asked
<1>1. applied \in SUBSET Agents
  BY DEF Asked, Firing
<1>2. \A a \in applied : now >= agents[a].cooldown /\ proposal[a] # {} /\ a \in Asked
  BY DEF Accepted
<1>3. \A a \in Agents :
        agents'[a] = [last |-> last(a), cooldown |-> cooldown(a), llm_disabled |-> disabled(a)]
  BY DEF Decide
<1>4. throttles' = throttles \union {new(a) : a \in applied}
  BY DEF Decide
<1>5. \A a \in applied : new(a).agent = a /\ new(a).at = now
  OBVIOUS
<1> HIDE DEF applied, new, last, cooldown, disabled
<1>6. ASSUME NEW a \in Agents
      PROVE  /\ agents'[a].last = IF ShouldFire(a) THEN now ELSE agents[a].last
             /\ agents'[a].cooldown =
                  IF a \in applied /\ Cooldown(a) > 0 THEN now + Cooldown(a) ELSE agents[a].cooldown
  <2> HIDE DEF chosen
  <2>1. agents'[a] = [last |-> last(a), cooldown |-> cooldown(a), llm_disabled |-> disabled(a)]
    BY <1>3
  <2>2. agents'[a].last = last(a) /\ agents'[a].cooldown = cooldown(a)
    BY <2>1, AgentFields, Zenon
  <2>3. a \in Firing <=> ShouldFire(a)
    BY DEF Firing
  <2>4. agents'[a].last = IF ShouldFire(a) THEN now ELSE agents[a].last
    BY <2>3, <2>2 DEF last
  <2>5. agents'[a].cooldown =
          IF a \in Asked /\ proposal[a] # {}
          THEN CooldownAfter(a, a \in applied) ELSE agents[a].cooldown
    BY <2>2 DEF cooldown
  <2> QED  BY <1>2, <2>4, <2>5 DEF CooldownAfter, Cooldown
<1> QED  BY <1>1, <1>2, <1>4, <1>5, <1>6

LEMMA DecideKeepsRhythm ==
  ASSUME Loaded, now \in Nat \ {0}, Rhythm(now - 1), RunAgents, UNCHANGED <<scene, now>>
  PROVE  /\ \A a \in Agents :
              /\ agents'[a].last = now - (now % Interval(a))
              /\ agents'[a].cooldown =
                   IF Acted(a)' = {} \/ Cooldown(a) = 0 THEN 0 ELSE Max(Acted(a)') + Cooldown(a)
         /\ \A t \in throttles' : t.agent \in Agents /\ t.at \in Nat /\ t.at <= now
         /\ \A t, u \in throttles' :
              t.agent = u.agent /\ t.at < u.at => u.at - t.at >= Cooldown(t.agent)
<1>1. PICK proposal \in [Asked -> {{}} \union {{p} : p \in Proposals}] : Decide(proposal)
  BY DEF RunAgents
<1>2. PICK applied \in SUBSET Agents :
           /\ \A a \in applied : now >= agents[a].cooldown
           /\ \A a \in Agents :
                /\ agents'[a].last = IF ShouldFire(a) THEN now ELSE agents[a].last
                /\ agents'[a].cooldown =
                     IF a \in applied /\ Cooldown(a) > 0
                     THEN now + Cooldown(a) ELSE agents[a].cooldown
           /\ throttles \subseteq throttles'
           /\ \A t \in throttles' : t \in throttles \/ (t.agent \in applied /\ t.at = now)
           /\ \A a \in applied : \E t \in throttles' : t.agent = a /\ t.at = now
  BY <1>1, DecideShape
<1>3. \A t \in throttles : t.agent \in Agents /\ t.at \in Nat /\ t.at <= now - 1
  BY DEF Rhythm
<1>4. \A t \in throttles' : t.agent \in Agents /\ t.at \in Nat /\ t.at <= now
  BY <1>2, <1>3
<1>5. ASSUME NEW a \in Agents
      PROVE  agents'[a].last = now - (now % Interval(a))
  BY <1>2, FiresOnTime DEF Rhythm
<1>6. ASSUME NEW a \in Agents
      PROVE  /\ Acted(a) \subseteq Nat
             /\ \A y \in Acted(a) : y <= now - 1
             /\ a \in applied => now \in Acted(a)' /\ Acted(a)' \subseteq Nat /\ \A y \in Acted(a)' : y <= now
             /\ a \notin applied => Acted(a)' = Acted(a)
  <2>1. Acted(a)' = {t.at : t \in {x \in throttles' : x.agent = a}}
    BY DEF Acted
  <2>2. a \notin applied => {x \in throttles' : x.agent = a} = {x \in throttles : x.agent = a}
    BY <1>2
  <2>3. a \in applied => now \in Acted(a)'
    BY <1>2, <2>1
  <2>4. Acted(a)' \subseteq Nat /\ \A y \in Acted(a)' : y <= now
    BY <1>4, <2>1
  <2>5. Acted(a) \subseteq Nat /\ \A y \in Acted(a) : y <= now - 1
    BY <1>3 DEF Acted
  <2> QED  BY <2>1, <2>2, <2>3, <2>4, <2>5 DEF Acted
<1>7. ASSUME NEW a \in Agents
      PROVE  agents'[a].cooldown =
               IF Acted(a)' = {} \/ Cooldown(a) = 0 THEN 0 ELSE Max(Acted(a)') + Cooldown(a)
  <2>1. /\ Cooldown(a) \in Nat
        /\ agents[a].cooldown =
             IF Acted(a) = {} \/ Cooldown(a) = 0 THEN 0 ELSE Max(Acted(a)) + Cooldown(a)
        /\ agents'[a].cooldown =
             IF a \in applied /\ Cooldown(a) > 0 THEN now + Cooldown(a) ELSE agents[a].cooldown
    BY <1>2, LoadedAgents DEF Rhythm
  <2>2. CASE a \in applied
    <3>1. Max(Acted(a)') = now /\ Acted(a)' # {}
      <4> DEFINE S == Acted(a)'
      <4>1. now \in S /\ S \subseteq Nat /\ \A y \in S : y <= now
        BY <1>6, <2>2
      <4> HIDE DEF S
      <4>2. Max(S) = now
        BY <4>1, GreatestIs
      <4> QED  BY <4>1, <4>2 DEF S
    <3> QED  BY <2>1, <2>2, <3>1
  <2>3. CASE a \notin applied
    BY <1>6, <2>1, <2>3
  <2> QED  BY <2>2, <2>3
<1>8. ASSUME NEW t \in throttles', NEW u \in throttles', t.agent = u.agent, t.at < u.at
      PROVE  u.at - t.at >= Cooldown(t.agent)
  <2> DEFINE a == t.agent
  <2>1. a \in Agents /\ t.at \in Nat /\ u.at \in Nat /\ t.at <= now /\ u.at <= now
    BY <1>4
  <2>2. t \in throttles
    BY <1>2, <1>8, <2>1
  <2>3. CASE u \in throttles
    BY <1>8, <2>2, <2>3 DEF Rhythm
  <2>4. CASE u \notin throttles
    <3>1. a \in applied /\ u.at = now
      BY <1>2, <1>8, <2>4
    <3>2. now >= agents[a].cooldown /\ Cooldown(a) \in Nat
      BY <1>2, <2>1, <3>1, LoadedAgents
    <3>3. t.at \in Acted(a)
      BY <2>2 DEF Acted
    <3>4. Acted(a) # {} /\ Acted(a) \subseteq Nat /\ \A y \in Acted(a) : y <= now - 1
      BY <1>6, <2>1, <3>3
    <3>5. t.at <= Max(Acted(a)) /\ Max(Acted(a)) \in Nat
      <4> DEFINE S == Acted(a)
                 bound == now - 1
      <4>1. S # {} /\ S \subseteq Nat /\ bound \in Nat /\ \A y \in S : y <= bound
        BY <3>4
      <4>2. t.at \in S
        BY <3>3
      <4> HIDE DEF S, bound
      <4>3. Max(S) \in S /\ \A y \in S : y <= Max(S)
        BY <4>1, GreatestOf
      <4> QED  BY <4>1, <4>2, <4>3 DEF S
    <3>6. agents[a].cooldown = IF Cooldown(a) = 0 THEN 0 ELSE Max(Acted(a)) + Cooldown(a)
      BY <2>1, <3>4 DEF Rhythm
    <3> DEFINE cooldown == Cooldown(a)
               greatest == Max(Acted(a))
    <3>7. /\ cooldown \in Nat /\ greatest \in Nat /\ t.at <= greatest
          /\ cooldown = 0 \/ now >= greatest + cooldown
      BY <3>2, <3>4, <3>5, <3>6
    <3> HIDE DEF cooldown, greatest
    <3>8. now - t.at >= cooldown
      BY <1>8, <2>1, <3>1, <3>7
    <3> QED  BY <3>1, <3>8 DEF cooldown
  <2> QED  BY <2>3, <2>4
<1> QED  BY <1>4, <1>5, <1>7, <1>8

LEMMA RhythmStep ==
  ASSUME LoadedTypes, Ticking, Rhythm(LastDecided), [RuntimeNext]_runtimeVars
  PROVE  Rhythm(LastDecided)'
<1>1. UNCHANGED scene /\ Loaded /\ now \in Nat
  BY RuntimeKeepsScene, SceneAssumption DEF LoadedTypes, TypeOK
<1>2. /\ Agents' = Agents
      /\ \A a \in Agents : Interval(a)' = Interval(a) /\ Cooldown(a)' = Cooldown(a)
  BY <1>1 DEF Agents, Interval, Cooldown
<1>3. CASE LetAgentsDecide
  <2>1. /\ RunAgents /\ UNCHANGED now /\ stage = "decide" /\ stage' = "mark"
    BY <1>3 DEF LetAgentsDecide, plantAndPressureVars, sceneVars
  <2>2. LastDecided = now - 1 /\ LastDecided' = now /\ now \in Nat \ {0}
    BY <1>1, <2>1 DEF LastDecided, Ticking
  <2>3. /\ \A a \in Agents :
              /\ agents'[a].last = now - (now % Interval(a))
              /\ agents'[a].cooldown =
                   IF Acted(a)' = {} \/ Cooldown(a) = 0 THEN 0 ELSE Max(Acted(a)') + Cooldown(a)
        /\ \A t \in throttles' : t.agent \in Agents /\ t.at \in Nat /\ t.at <= now
        /\ \A t, u \in throttles' :
              t.agent = u.agent /\ t.at < u.at => u.at - t.at >= Cooldown(t.agent)
    BY <1>1, <2>1, <2>2, DecideKeepsRhythm
  <2> QED  BY <1>1, <1>2, <2>2, <2>3 DEF Rhythm, Cooldown
<1>4. CASE ~LetAgentsDecide
  <2>1. UNCHANGED <<agents, throttles>>
    BY <1>4 DEF RuntimeNext, runtimeVars, BeginRuntimeTick, RunTransforms, ServeDemand, Judge, Show,
                MarkMilestones, agentVars
  <2>2. LastDecided' = LastDecided
    BY <1>4, Turns DEF LastDecided
  <2> QED  BY <1>1, <1>2, <2>1, <2>2 DEF Rhythm, Acted, Cooldown
<1> QED  BY <1>3, <1>4

LEMMA RhythmStart ==
  ASSUME RuntimeInit
  PROVE  Rhythm(LastDecided)
<1>1. /\ Loaded /\ now = 0 /\ stage = "rest" /\ throttles = {}
      /\ \A a \in Agents : agents[a].last = 0 /\ agents[a].cooldown = 0
  BY RuntimeStart DEF RuntimeInit, LoadedTypes, Init, AgentsInit
<1>2. LastDecided = 0
  BY <1>1 DEF LastDecided
<1>3. \A a \in Agents : agents[a].last = 0 - (0 % Interval(a))
  <2> TAKE a \in Agents
  <2>1. Interval(a) \in Nat \ {0}
    BY <1>1, LoadedAgents
  <2>2. 0 % Interval(a) \in Nat /\ 0 % Interval(a) <= 0
    BY <2>1, NextRemainder
  <2> QED  BY <1>1, <2>2
<1>4. \A a \in Agents : Acted(a) = {}
  BY <1>1 DEF Acted
<1> QED  BY <1>1, <1>2, <1>3, <1>4 DEF Rhythm

-----------------------------------------------------------------------------
\* At the end of every tick, of every scene the loader accepts and whatever the
\* agents propose: an alert on one thing's freshness tells since when it has
\* been too old, the milestones of a pressure mark the ticks its window opened
\* and closed, and the agents decide at the multiples of their intervals and
\* keep their cooldowns (sl1_observability.rs:78-190, sl1_milestones.rs:46-103,
\* sl1_agents.rs:170-328).
THEOREM ReadersTellTime == RuntimeSpec => []ReadersKeepTime
<1> DEFINE ReadersInv == Ticking /\ Marked /\ Told /\ Rhythm(LastDecided)
<1>1. RuntimeInit => JudgeInv /\ JustInv /\ WindowInv /\ ReadersInv
  <2>1. RuntimeInit => WindowInv
    BY DEF RuntimeInit, Init, PressureInit, WindowInv, PressureFollowsWindow
  <2> QED  BY <2>1, JustStart, MarkStart, TellStart, RhythmStart
<1>2. /\ LoadedTypes /\ JudgeInv /\ JustInv /\ WindowInv /\ ReadersInv
      /\ [RuntimeNext]_runtimeVars
      => (JudgeInv /\ JustInv /\ WindowInv /\ ReadersInv)'
  <2> SUFFICES ASSUME LoadedTypes, JudgeInv, JustInv, WindowInv, ReadersInv,
                      [RuntimeNext]_runtimeVars
               PROVE  (JudgeInv /\ JustInv /\ WindowInv /\ ReadersInv)'
    OBVIOUS
  <2>1. JudgeInv' /\ JustInv' /\ WindowInv'
    BY JudgeStep, JustStep, WindowStep
  <2>2. FreshnessTellsAge
    BY DEF JustInv
  <2>3. Ticking' /\ Marked' /\ Told' /\ Rhythm(LastDecided)'
    BY <2>2, TickingStep, MarkStep, TellStep, RhythmStep
  <2> QED  BY <2>1, <2>3
<1>3. LoadedTypes /\ JustInv /\ ReadersInv => ReadersKeepTime
  <2> SUFFICES ASSUME LoadedTypes, JustInv, ReadersInv
               PROVE  ReadersKeepTime
    OBVIOUS
  <2>1. AlertTellsSince
    BY ToldSince DEF JustInv
  <2>2. MilestonesMarkWindow
    BY MarkedWindows
  <2>3. AgentsKeepTheirRhythm
    <3> SUFFICES ASSUME stage = "rest"  PROVE AgentsKeepTheirRhythm
      BY DEF AgentsKeepTheirRhythm
    <3>1. Rhythm(now)
      BY DEF LastDecided
    <3> QED  BY <3>1 DEF Rhythm, Acted, Interval, Cooldown, AgentsKeepTheirRhythm
  <2> QED  BY <2>1, <2>2, <2>3 DEF ReadersKeepTime
<1> HIDE DEF ReadersInv
<1> QED  BY <1>1, <1>2, <1>3, RuntimeLoaded, PTL DEF RuntimeSpec

-----------------------------------------------------------------------------
(***************************************************************************)
(* The types of what follows the transforms: the differences of ticks that *)
(* ages and streaks are made of never fall below zero.                     *)
(***************************************************************************)
LEMMA LoadedReaders ==
  ASSUME Loaded
  PROVE  /\ \A b \in Buckets : scene.base[b] \in Nat
         /\ \A m \in Metrics :
              LET metric == scene.metrics[m]
              IN  \/ metric.kind = "capacity_used_percent" /\ metric.bucket \in Buckets
                  \/ metric.kind = "inventory_count" /\ metric.slot \in Slots
                  \/ metric.kind = "dashboard_freshness" /\ metric.dashboard \in Dashboards
         /\ \A d \in Dashboards : UNION scene.dashboards[d].depends \subseteq Slots
         /\ \A a \in Alerts : scene.alerts[a].metric \in Metrics
<1>1. AreRules(scene) /\ IsScene(scene)
  BY RulesAssumption, LoadedScene DEF Loaded
<1>2. \A b \in Buckets : scene.base[b] \in Nat
  BY <1>1 DEF IsScene
<1>3. \A m \in Metrics : IsMetric(scene.metrics[m], scene)
  BY <1>1 DEF AreRules, Metrics
<1>4. \A d \in Dashboards : IsDashboard(scene.dashboards[d])
  BY <1>1 DEF AreRules, Dashboards
<1>5. \A a \in Alerts : scene.alerts[a].metric \in Metrics
  BY <1>1 DEF AreRules, IsAlert, Alerts, Metrics
<1> QED  BY <1>2, <1>3, <1>4, <1>5 DEF IsMetric, IsStorage, IsDashboard, Dashboards

LEMMA UsedPercentType ==
  ASSUME LoadedTypes, NEW b \in Buckets
  PROVE  UsedPercent(b) \in Nat
<1> DEFINE x == used[b]
           y == scene.base[b]
           hundred == 100
<1>1. x \in Nat /\ y \in Nat /\ hundred \in Nat
  BY LoadedReaders DEF LoadedTypes, TypeOK
<1>2. CASE y = 0
  BY <1>2 DEF UsedPercent
<1>3. CASE y # 0
  <2> DEFINE z == Min({x, y})
             w == z * hundred
  <2>1. UsedPercent(b) = w \div y
    BY <1>3 DEF UsedPercent
  <2> HIDE DEF x, y, hundred
  <2>2. z \in Nat
    BY <1>1, LesserOf
  <2> HIDE DEF z
  <2>3. w \in Nat
    BY <1>1, <2>2
  <2> HIDE DEF w
  <2>4. w \div y \in Nat
    BY <1>1, <1>3, <2>3
  <2> QED  BY <2>1, <2>4 DEF y
<1> QED  BY <1>2, <1>3

\* The oldest of the freshest copies is no older than the run.
LEMMA AgeType ==
  ASSUME LoadedTypes, FreshnessTellsAge, NEW d \in Dashboards, HasData(d)
  PROVE  Age(d) \in Nat
<1> DEFINE depends == scene.dashboards[d].depends
           ages(slots) == {now - freshness[s].set : s \in Dated(slots)}
           freshest == {Min(ages(slots)) : slots \in depends}
           none == 0
           S == {none} \union freshest
<1>1. now \in Nat /\ none \in Nat /\ none <= now
  BY SceneAssumption DEF LoadedTypes, TypeOK
<1>2. \A slots \in depends : slots \subseteq Slots /\ Dated(slots) # {}
  BY LoadedReaders DEF LoadedTypes, HasData
<1>3. ASSUME NEW slots \in depends
      PROVE  Min(ages(slots)) \in Nat /\ Min(ages(slots)) <= now
  <2>1. ASSUME NEW s \in Dated(slots)
        PROVE  now - freshness[s].set \in Nat /\ now - freshness[s].set <= now
    <3>1. s \in Slots /\ freshness[s].kind # "no_data"
      BY <1>2 DEF Dated
    <3>2. freshness[s].set \in Nat /\ freshness[s].set <= now
      BY <3>1, PastFreshness DEF LoadedTypes
    <3> QED  BY <1>1, <3>2
  <2>2. ages(slots) \subseteq Nat /\ \A x \in ages(slots) : x <= now
    BY <2>1
  <2>3. ages(slots) # {}
    BY <1>2
  <2> HIDE DEF ages
  <2>4. Min(ages(slots)) \in ages(slots)
    BY <2>2, <2>3, LeastOf
  <2> QED  BY <2>2, <2>4
<1>4. Age(d) = Max(S)
  BY DEF Age
<1> HIDE DEF ages, none
<1>5. S \subseteq Nat /\ S # {} /\ \A x \in S : x <= now
  BY <1>1, <1>3
<1> HIDE DEF S
<1>6. Max(S) \in S
  BY <1>1, <1>5, GreatestOf
<1> QED  BY <1>4, <1>5, <1>6

\* The judgement (run, sl1_objectives.rs).
LEMMA JudgeTyped ==
  ASSUME LoadedTypes, ReadersTypeOK, RunObjectives, UNCHANGED <<scene, now>>
  PROVE  /\ (objectives \in [Objectives -> ObjectiveStates])'
         /\ (failures \in [Failures -> FailureStates])'
         /\ (victories \in [Victories -> Nat])'
         /\ (outcome \in Outcomes /\ phase \in GamePhases)'
<1>1. /\ Objectives' = Objectives /\ Failures' = Failures /\ Victories' = Victories
      /\ now \in Nat
  BY SceneAssumption DEF Objectives, Failures, Victories, LoadedTypes, TypeOK
<1>2. CASE Settled
  <2>1. UNCHANGED judgeVars
    BY <1>2 DEF RunObjectives
  <2> QED  BY <1>1, <2>1 DEF judgeVars, ReadersTypeOK, Outcomes
<1>3. CASE ~Settled
  <2> DEFINE rated == RateObjectives
             failed == AdvanceFailures(rated)
             met == AdvanceVictories
             result == Settle(failed, met)
  <2>1. /\ objectives' = rated /\ failures' = failed /\ victories' = met
        /\ outcome' = result /\ phase' = Phase(result, rated, failed)
    BY <1>3 DEF RunObjectives
  <2>2. rated \in [Objectives -> ObjectiveStates]
    <3> DEFINE more(o) == IF Status(scene.objectives[o]) = "breached" THEN 1 ELSE 0
    <3>1. \A o \in Objectives :
            Status(scene.objectives[o]) \in {"unknown", "met", "breached", "unsupported"}
      BY DEF Status
    <3>2. \A o \in Objectives : objectives[o].breaches + more(o) \in Nat
      BY DEF ReadersTypeOK, ObjectiveStates
    <3>3. rated = [o \in Objectives |-> [status |-> Status(scene.objectives[o]),
                                         breaches |-> objectives[o].breaches + more(o)]]
      BY DEF RateObjectives
    <3> HIDE DEF rated, more
    <3> QED  BY <3>1, <3>2, <3>3 DEF ObjectiveStates
  <2>3. failed \in [Failures -> FailureStates]
    <3>1. \A f \in Failures : failures[f].streak \in Nat /\ failures[f].fired \in Nat
      BY DEF ReadersTypeOK, FailureStates
    <3>2. \A f \in Failures : Streak(f, rated) \in Nat
      BY <3>1 DEF Streak
    <3> HIDE DEF rated
    <3> QED  BY <1>1, <3>1, <3>2 DEF AdvanceFailures, FailureStates
  <2>4. met \in [Victories -> Nat]
    BY <1>1 DEF AdvanceVictories, ReadersTypeOK
  <2> HIDE DEF rated, failed, met
  <2>5. result \in Outcomes
    <3> DEFINE fired == {f \in Failures : failed[f].fired # 0}
    <3>1. CASE fired = {}
      <4>1. result \in {[kind |-> "won", by |-> 0], InProgress}
        BY <3>1 DEF Settle
      <4> QED  BY <4>1 DEF Outcomes, InProgress
    <3>2. CASE fired # {}
      <4>1. fired \subseteq Nat
        BY LoadedFailures DEF LoadedTypes
      <4>2. Min(fired) \in fired
        BY <3>2, <4>1, LeastOf
      <4>3. result = [kind |-> "lost", by |-> Min(fired)]
        BY <3>2 DEF Settle
      <4>4. Min(fired) \in Failures
        BY <4>2
      <4> HIDE DEF result
      <4> QED  BY <4>3, <4>4 DEF Outcomes
    <3> QED  BY <3>1, <3>2
  <2>6. result.kind \in {"in_progress", "won", "lost"}
    BY <2>5 DEF Outcomes
  <2> HIDE DEF result
  <2>7. Phase(result, rated, failed) \in GamePhases
    BY <2>6 DEF Phase, GamePhases
  <2>8. Outcomes' = Outcomes
    BY <1>1 DEF Outcomes
  <2> QED  BY <1>1, <2>1, <2>2, <2>3, <2>4, <2>5, <2>7, <2>8
<1> QED  BY <1>2, <1>3

\* What is shown (run, sl1_observability.rs).
LEMMA ShowTyped ==
  ASSUME LoadedTypes, FreshnessTellsAge, ReadersTypeOK, RunObservability, UNCHANGED <<scene, now>>
  PROVE  /\ (dashboards \in [Dashboards -> DashboardStates])'
         /\ (metrics \in [Metrics -> MetricStates])'
         /\ (alerts \in [Alerts -> Nat])'
<1>1. Dashboards' = Dashboards /\ Metrics' = Metrics /\ Alerts' = Alerts /\ now \in Nat
  BY SceneAssumption DEF Dashboards, Metrics, Alerts, LoadedTypes, TypeOK
<1>2. \A d \in Dashboards : DashboardState(d) \in DashboardStates
  BY AgeType DEF DashboardState, DashboardStates
<1>3. ASSUME NEW m \in Metrics  PROVE MetricState(scene.metrics[m]) \in MetricStates
  <2> DEFINE metric == scene.metrics[m]
  <2>1. CASE metric.kind = "capacity_used_percent" /\ metric.bucket \in Buckets
    <3>1. MetricState(metric) = [kind |-> "ok", value |-> UsedPercent(metric.bucket)]
      BY <2>1 DEF MetricState
    <3> QED  BY <2>1, <3>1, UsedPercentType DEF MetricStates
  <2>2. CASE metric.kind = "inventory_count" /\ metric.slot \in Slots
    <3>1. MetricState(metric) = [kind |-> "ok", value |-> inventory[metric.slot]]
      BY <2>2 DEF MetricState
    <3> QED  BY <2>2, <3>1 DEF MetricStates, LoadedTypes, TypeOK
  <2>3. CASE metric.kind = "dashboard_freshness" /\ metric.dashboard \in Dashboards
    <3>1. MetricState(metric) = IF HasData(metric.dashboard)
                                THEN [kind |-> "ok", value |-> Age(metric.dashboard)] ELSE NoData
      BY <2>3 DEF MetricState
    <3> QED  BY <2>3, <3>1, AgeType DEF MetricStates
  <2> QED  BY <2>1, <2>2, <2>3, LoadedReaders DEF LoadedTypes
<1>4. dashboards' \in [Dashboards -> DashboardStates] /\ metrics' \in [Metrics -> MetricStates]
  BY <1>2, <1>3 DEF RunObservability
<1>5. \A a \in Alerts : AlertState(a, metrics'[scene.alerts[a].metric]) \in Nat
  BY <1>1 DEF AlertState, ReadersTypeOK
<1>6. alerts' \in [Alerts -> Nat]
  BY <1>5 DEF RunObservability
<1>7. DashboardStates' = DashboardStates /\ MetricStates' = MetricStates
  BY DEF DashboardStates, MetricStates, NoData
<1> QED  BY <1>1, <1>4, <1>6, <1>7

\* A demand forgets a pause that is over (run_demand, sl1_runtime.rs).
LEMMA ServeTyped ==
  ASSUME pauses \in [Demands -> Nat], RunDemand, UNCHANGED scene
  PROVE  (pauses \in [Demands -> Nat])'
BY DEF RunDemand, Demands

LEMMA AgentDisabled ==
  ASSUME NEW r, NEW x, NEW y, NEW z, r = [last |-> x, cooldown |-> y, llm_disabled |-> z]
  PROVE  r.llm_disabled = z
OBVIOUS

\* The agents decide (run, sl1_agents.rs).
LEMMA DecideTyped ==
  ASSUME Loaded, now \in Nat, pauses \in [Demands -> Nat], agents \in [Agents -> AgentStates],
         RunAgents, UNCHANGED scene
  PROVE  /\ (pauses \in [Demands -> Nat])'
         /\ (agents \in [Agents -> AgentStates])'
<1>1. Demands' = Demands /\ Agents' = Agents
  BY DEF Demands, Agents
<1>2. PICK proposal \in [Asked -> {{}} \union {{p} : p \in Proposals}] : Decide(proposal)
  BY DEF RunAgents
<1> DEFINE applied == {a \in Asked : \E p \in proposal[a] : Accepted(a, p)}
           chosen(a) == CHOOSE p \in proposal[a] : TRUE
           last(a) == IF a \in Firing THEN now ELSE agents[a].last
           cooldown(a) == IF a \in Asked /\ proposal[a] # {}
                          THEN CooldownAfter(a, a \in applied) ELSE agents[a].cooldown
           disabled(a) == agents[a].llm_disabled \/ a \in Firing \ Asked
           untils(d) == {PauseUntil(chosen(a)) : a \in {b \in applied : chosen(b).demand = d}}
<1>3. \A a \in applied : chosen(a).pause \in 1 .. MaxPause
  <2> TAKE a \in applied
  <2>1. PICK p \in proposal[a] : Accepted(a, p)
    OBVIOUS
  <2>2. proposal[a] = {p}
    BY <2>1
  <2>3. chosen(a) = p
    BY <2>2
  <2> QED  BY <2>1, <2>3 DEF Accepted, ParametersValid
<1>4. /\ pauses' = [d \in Demands |-> Longest(d, untils(d))]
      /\ agents' = [a \in Agents |->
           [last |-> last(a), cooldown |-> cooldown(a), llm_disabled |-> disabled(a)]]
  BY <1>2 DEF Decide
<1>5. ASSUME NEW d \in Demands  PROVE Longest(d, untils(d)) \in Nat
  <2> DEFINE bound == pauses[d] + now + 1 + MaxPause
             S == {pauses[d]} \union untils(d)
  <2> HIDE DEF chosen, applied
  <2>1. \A a \in applied : PauseUntil(chosen(a)) \in Nat /\ PauseUntil(chosen(a)) <= now + 1 + MaxPause
    BY <1>3, PauseAssumption DEF PauseUntil
  <2>2. pauses[d] \in Nat /\ bound \in Nat /\ now + 1 + MaxPause \in Nat
    BY PauseAssumption
  <2>3. \A x \in untils(d) : x \in Nat /\ x <= bound
    <3> DEFINE until(a) == PauseUntil(chosen(a))
    <3>1. \A a \in applied : until(a) \in Nat /\ until(a) <= bound
      BY <2>1, <2>2, PauseAssumption
    <3> HIDE DEF until, bound
    <3>2. untils(d) = {until(a) : a \in {b \in applied : chosen(b).demand = d}}
      BY DEF until
    <3> QED  BY <3>1, <3>2
  <2>4. pauses[d] <= bound
    BY <2>2, PauseAssumption
  <2> HIDE DEF bound, untils
  <2>5. S \subseteq Nat /\ S # {} /\ \A x \in S : x <= bound
    BY <2>2, <2>3, <2>4
  <2>6. Longest(d, untils(d)) = Max(S)
    BY DEF Longest
  <2> HIDE DEF S
  <2> QED  BY <2>2, <2>5, <2>6, GreatestOf
<1>6. ASSUME NEW a \in Agents
      PROVE  last(a) \in Nat /\ cooldown(a) \in Nat /\ disabled(a) \in BOOLEAN
  <2>1. agents[a] \in AgentStates
    OBVIOUS
  <2>2. agents[a].last \in Nat /\ agents[a].cooldown \in Nat
    BY <2>1 DEF AgentStates
  <2>3. scene.agents[a].cooldown \in Nat
    BY LoadedAgents DEF Cooldown
  <2>4. last(a) \in Nat
    BY <2>2
  <2> HIDE DEF applied
  <2>5. cooldown(a) \in Nat
    BY <2>2, <2>3 DEF CooldownAfter
  <2>6. disabled(a) \in BOOLEAN
    OBVIOUS
  <2> QED  BY <2>4, <2>5, <2>6
<1> HIDE DEF last, cooldown, disabled, untils, applied, chosen
<1>7. agents' \in [Agents -> AgentStates]
  BY <1>4, <1>6 DEF AgentStates
<1> QED  BY <1>1, <1>4, <1>5, <1>7

\* The milestones look for their triggers (run, sl1_milestones.rs).
LEMMA MarkTyped ==
  ASSUME now \in Nat, milestones \in [Milestones -> MilestoneStates], RunMilestones, UNCHANGED scene
  PROVE  (milestones \in [Milestones -> MilestoneStates])'
<1>1. Milestones' = Milestones
  BY DEF Milestones
<1>2. ASSUME NEW m \in Milestones  PROVE Observed(m) \in MilestoneStates
  <2> DEFINE works == Trigger(m).pressure \in active
  <2>1. milestones[m] \in MilestoneStates /\ works \in BOOLEAN
    OBVIOUS
  <2>2. Observed(m) \in {[milestones[m] EXCEPT !.armed = works], [milestones[m] EXCEPT !.fired = now],
                        milestones[m]}
    BY DEF Observed
  <2> HIDE DEF works
  <2>3. [milestones[m] EXCEPT !.armed = works] \in MilestoneStates
    BY <2>1 DEF MilestoneStates
  <2>4. [milestones[m] EXCEPT !.fired = now] \in MilestoneStates
    BY <2>1 DEF MilestoneStates
  <2> QED  BY <2>1, <2>2, <2>3, <2>4
<1>3. milestones' \in [Milestones -> MilestoneStates]
  BY <1>2 DEF RunMilestones
<1> QED  BY <1>1, <1>3 DEF MilestoneStates

LEMMA ReadersTypeStep ==
  ASSUME LoadedTypes, FreshnessTellsAge, ReadersTypeOK, [RuntimeNext]_runtimeVars
  PROVE  ReadersTypeOK'
<1>1. UNCHANGED scene /\ Loaded /\ now \in Nat
  BY RuntimeKeepsScene, SceneAssumption DEF LoadedTypes, TypeOK
<1>2. /\ Demands' = Demands /\ Objectives' = Objectives /\ Failures' = Failures
      /\ Victories' = Victories /\ Dashboards' = Dashboards /\ Metrics' = Metrics
      /\ Alerts' = Alerts /\ Agents' = Agents /\ Milestones' = Milestones
      /\ Outcomes' = Outcomes
  BY <1>1 DEF Demands, Objectives, Failures, Victories, Dashboards, Metrics, Alerts, Agents,
              Milestones, Outcomes
<1>3. CASE UNCHANGED <<pauses, judgeVars, shownVars, agentVars, milestones>>
  BY <1>2, <1>3 DEF ReadersTypeOK, judgeVars, shownVars, agentVars
<1>4. CASE ServeDemand
  <2>1. RunDemand /\ UNCHANGED <<judgeVars, shownVars, agentVars, milestones>>
    BY <1>4 DEF ServeDemand
  <2>2. (pauses \in [Demands -> Nat])'
    BY <1>1, <2>1, ServeTyped DEF ReadersTypeOK
  <2> QED  BY <1>2, <2>1, <2>2 DEF ReadersTypeOK, judgeVars, shownVars, agentVars
<1>5. CASE Judge
  <2>1. RunObjectives /\ UNCHANGED now /\ UNCHANGED <<pauses, shownVars, agentVars, milestones>>
    BY <1>5 DEF Judge, plantAndPressureVars, sceneVars
  <2>2. /\ (objectives \in [Objectives -> ObjectiveStates])'
        /\ (failures \in [Failures -> FailureStates])'
        /\ (victories \in [Victories -> Nat])'
        /\ (outcome \in Outcomes /\ phase \in GamePhases)'
    BY <1>1, <2>1, JudgeTyped
  <2> QED  BY <1>2, <2>1, <2>2 DEF ReadersTypeOK, shownVars, agentVars
<1>6. CASE Show
  <2>1. RunObservability /\ UNCHANGED now /\ UNCHANGED <<pauses, judgeVars, agentVars, milestones>>
    BY <1>6 DEF Show, plantAndPressureVars, sceneVars
  <2>2. /\ (dashboards \in [Dashboards -> DashboardStates])'
        /\ (metrics \in [Metrics -> MetricStates])'
        /\ (alerts \in [Alerts -> Nat])'
    BY <1>1, <2>1, ShowTyped
  <2> QED  BY <1>2, <2>1, <2>2 DEF ReadersTypeOK, judgeVars, agentVars
<1>7. CASE LetAgentsDecide
  <2>1. RunAgents /\ UNCHANGED <<judgeVars, shownVars, milestones>>
    BY <1>7 DEF LetAgentsDecide
  <2>2. (pauses \in [Demands -> Nat])' /\ (agents \in [Agents -> AgentStates])'
    BY <1>1, <2>1, DecideTyped DEF ReadersTypeOK
  <2> QED  BY <1>2, <2>1, <2>2 DEF ReadersTypeOK, judgeVars, shownVars
<1>8. CASE MarkMilestones
  <2>1. RunMilestones /\ UNCHANGED <<pauses, judgeVars, shownVars, agentVars>>
    BY <1>8 DEF MarkMilestones
  <2>2. (milestones \in [Milestones -> MilestoneStates])'
    BY <1>1, <2>1, MarkTyped DEF ReadersTypeOK
  <2> QED  BY <1>2, <2>1, <2>2 DEF ReadersTypeOK, judgeVars, shownVars, agentVars
<1>9. CASE BeginRuntimeTick \/ RunTransforms \/ UNCHANGED runtimeVars
  BY <1>3, <1>9 DEF BeginRuntimeTick, RunTransforms, runtimeVars
<1> QED  BY <1>4, <1>5, <1>6, <1>7, <1>8, <1>9 DEF RuntimeNext

LEMMA ReadersTypeStart ==
  ASSUME RuntimeInit
  PROVE  ReadersTypeOK
<1>1. pauses \in [Demands -> Nat]
  BY DEF RuntimeInit, DemandInit
<1>2. /\ objectives \in [Objectives -> ObjectiveStates]
      /\ failures \in [Failures -> FailureStates]
      /\ victories \in [Victories -> Nat]
      /\ outcome \in Outcomes /\ phase \in GamePhases
  BY DEF RuntimeInit, ObjectivesInit, ObjectiveStates, FailureStates, Outcomes, InProgress, GamePhases
<1>3. /\ dashboards \in [Dashboards -> DashboardStates]
      /\ metrics \in [Metrics -> MetricStates]
      /\ alerts \in [Alerts -> Nat]
  BY DEF RuntimeInit, ObservabilityInit, DashboardStates, MetricStates
<1>4. agents \in [Agents -> AgentStates]
  BY DEF RuntimeInit, AgentsInit, AgentStates
<1>5. milestones \in [Milestones -> MilestoneStates]
  <2>1. \A m \in Milestones : (Trigger(m).kind # "pressure_deactivated") \in BOOLEAN
    OBVIOUS
  <2> QED  BY <2>1 DEF RuntimeInit, MilestonesInit, MilestoneStates
<1> QED  BY <1>1, <1>2, <1>3, <1>4, <1>5 DEF ReadersTypeOK

\* What an SL1 scene tells of itself has its types after every pass, in every
\* scene the loader accepts: a metric, an age, a streak and a pause are numbers
\* of ticks or of things, never less than zero, although ages are differences,
\* and whoever lost the game is a failure condition of the scene (the states of
\* run's later passes, sl1_runtime.rs:31-85).
THEOREM ReadersTypeCorrect == RuntimeSpec => []ReadersTypeOK
<1>1. RuntimeInit => JudgeInv /\ JustInv /\ ReadersTypeOK
  BY JustStart, ReadersTypeStart
<1>2. LoadedTypes /\ JudgeInv /\ JustInv /\ ReadersTypeOK /\ [RuntimeNext]_runtimeVars
      => (JudgeInv /\ JustInv /\ ReadersTypeOK)'
  <2> SUFFICES ASSUME LoadedTypes, JudgeInv, JustInv, ReadersTypeOK, [RuntimeNext]_runtimeVars
               PROVE  (JudgeInv /\ JustInv /\ ReadersTypeOK)'
    OBVIOUS
  <2>1. FreshnessTellsAge
    BY DEF JustInv
  <2> QED  BY <2>1, JudgeStep, JustStep, ReadersTypeStep
<1> QED  BY <1>1, <1>2, RuntimeLoaded, PTL DEF RuntimeSpec
=============================================================================
