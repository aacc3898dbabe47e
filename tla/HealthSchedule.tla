--------------------------- MODULE HealthSchedule ---------------------------
(***************************************************************************)
(* Which registry entries a health pass takes.  The entries of a source are*)
(* two queues: those online or offline, ordered by their last check, and   *)
(* the invalid ones, ordered by their last update.  A pass notes the time  *)
(* and takes the first of each that were not checked since: of the invalid *)
(* ones only those whose waiting time was over then, and of these the first*)
(* few; it renews the update time of all of them before it checks those.   *)
(* An invalid entry that was checked often is given up.                    *)
(*                                                                         *)
(* RegistryHealth models what a check does to an entry and assumes that    *)
(* passes take every entry again and again; this module is about that.     *)
(* Times are modelled by the order they give and by whether a wait is over.*)
(***************************************************************************)
EXTENDS Naturals, FiniteSets

CONSTANTS
    Entries,        \* the entries of one source
    PageLength,     \* entries of each queue that are loaded (50)
    BatchLength,    \* invalid entries that are checked in one pass (10)
    GiveUpAfter     \* invalid entries with more checks are given up (20)

ASSUME EntriesAssumption == IsFiniteSet(Entries)
ASSUME LengthAssumption == {PageLength, BatchLength} \subseteq Nat \ {0}
ASSUME GiveUpAssumption == GiveUpAfter \in Nat

VARIABLES
    live,       \* the entries online or offline
    invalid,    \* the invalid entries
    earlier,    \* the pairs of a queue: the first has the earlier time
    checks,     \* checks[e]: uptimeCheckCount, as far as it is compared
    waited,     \* the invalid entries whose waiting time is over
    fresh,      \* until it has loaded: the entries checked since the pass began
    pass        \* what the pass is doing, to which entries

scheduleVars == <<live, invalid, earlier, checks, waited, fresh, pass>>

(* batch: the entries to check; renew: once the pass has loaded, those of  *)
(* which it renews the time, until then those whose wait was over when it  *)
(* noted the time.                                                         *)
Idle == [at |-> "idle", batch |-> {}, renew |-> {}]

(* A queue is in the order of a time of its entries: of lastUptimeCheck for*)
(* the live ones, of updatedAt for the invalid ones.                       *)
IsOrdered(q) ==
    /\ \A e \in q : <<e, e>> \notin earlier
    /\ \A e, f \in q : e = f \/ <<e, f>> \in earlier \/ <<f, e>> \in earlier
    /\ \A e, f, g \in q : <<e, f>> \in earlier /\ <<f, g>> \in earlier => <<e, g>> \in earlier

ScheduleTypeOK ==
    /\ live \subseteq Entries /\ invalid \subseteq Entries /\ live \cap invalid = {}
    /\ earlier \subseteq (live \X live) \cup (invalid \X invalid)
    /\ IsOrdered(live) /\ IsOrdered(invalid)
    /\ checks \in [Entries -> 1 .. GiveUpAfter + 1]
    /\ waited \subseteq invalid
    /\ fresh \subseteq Entries
    /\ pass \in [at : {"idle", "begun", "loading", "checking"}, batch : SUBSET Entries,
                 renew : SUBSET Entries]

(* Every entry was checked when it was created.                            *)
ScheduleInit ==
    /\ live \in SUBSET Entries
    /\ invalid = Entries \ live
    /\ earlier \in SUBSET ((live \X live) \cup (invalid \X invalid))
    /\ IsOrdered(live) /\ IsOrdered(invalid)
    /\ checks = [e \in Entries |-> 1]
    /\ waited = {} /\ fresh = {}
    /\ pass = Idle

---------------------------------------------------------------------------
Ahead(q, e) == {f \in q : <<f, e>> \in earlier}

(* orderBy the time, take n.                                               *)
First(q, n) == {e \in q : Cardinality(Ahead(q, e)) < n}

Without(e) == {p \in earlier : p[1] # e /\ p[2] # e}

(* An update of an entry puts it at the end of its queue.                  *)
ToEnd(q, e) == Without(e) \cup {<<f, e>> : f \in q \ {e}}

(* uptimeCheckCount, one more, as far as it is compared.                   *)
OneMore(n) == IF n > GiveUpAfter THEN n ELSE n + 1

(* The pass has noted its time, onlyEntriesAfter, and reads the queues.    *)
Loading == pass.at \in {"begun", "loading"}

(* Mutant: a check does not renew the times of an entry that keeps its     *)
(* status.                                                                 *)
WrittenInPlace(e) ==
    \E valid \in BOOLEAN :
        /\ live' = IF valid THEN live \cup {e} ELSE live \ {e}
        /\ invalid' = IF valid THEN invalid \ {e} ELSE invalid \cup {e}
        /\ earlier' = IF ~valid THEN ToEnd(invalid, e)
                      ELSE IF e \in live THEN earlier ELSE ToEnd(live, e)
        /\ checks' = [checks EXCEPT ![e] = OneMore(@)]
        /\ waited' = waited \ {e}
        /\ fresh' = IF Loading THEN fresh \cup {e} ELSE {}

(* The outcome of a check is written: status, counters and both times.     *)
CheckWritten(e) ==
    \E valid \in BOOLEAN :
        /\ live' = IF valid THEN live \cup {e} ELSE live \ {e}
        /\ invalid' = IF valid THEN invalid \ {e} ELSE invalid \cup {e}
        /\ earlier' = ToEnd(IF valid THEN live ELSE invalid, e)
        /\ checks' = [checks EXCEPT ![e] = OneMore(@)]
        /\ waited' = waited \ {e}
        /\ fresh' = IF Loading THEN fresh \cup {e} ELSE {}

---------------------------------------------------------------------------
(* Time goes by: the wait, ten minutes per failed check and two days at    *)
(* most, of an invalid entry is over.                                      *)
WaitEnds(e) ==
    /\ e \in invalid
    /\ waited' = waited \cup {e}
    /\ UNCHANGED <<live, invalid, earlier, checks, fresh, pass>>

(* A query checks the entries it loads, and a mint the entry it writes,    *)
(* which may be a new one.                                                 *)
CheckedElsewhere(e) == CheckWritten(e) /\ UNCHANGED pass

(* A burned entry is in neither queue; a check that had loaded it puts it  *)
(* back.                                                                   *)
Deregistered(e) ==
    /\ live' = live \ {e}
    /\ invalid' = invalid \ {e}
    /\ earlier' = Without(e)
    /\ waited' = waited \ {e}
    /\ UNCHANGED <<checks, fresh, pass>>

---------------------------------------------------------------------------
(* The pass.                                                               *)

PassBegins ==
    /\ pass = Idle
    /\ pass' = [at |-> "begun", batch |-> {}, renew |-> waited]
    /\ UNCHANGED <<live, invalid, earlier, checks, waited, fresh>>

LoadLive ==
    /\ pass.at = "begun"
    /\ pass' = [pass EXCEPT !.at = "loading", !.batch = First(live \ fresh, PageLength)]
    /\ UNCHANGED <<live, invalid, earlier, checks, waited, fresh>>

(* Mutant: nothing is given up.                                            *)
NeverGivenUp(e) == TRUE

NotGivenUp(e) == checks[e] <= GiveUpAfter

(* The longest not updated of those not given up; of the page, those whose *)
(* wait is over (excludedEntries) are renewed, and the first are checked.  *)
LoadInvalid ==
    LET over == First({e \in invalid \ fresh : NotGivenUp(e)}, PageLength) \cap pass.renew IN
    /\ pass.at = "loading"
    /\ pass' = [at |-> "checking", batch |-> pass.batch \cup First(over, BatchLength),
                renew |-> over]
    /\ fresh' = {}
    /\ UNCHANGED <<live, invalid, earlier, checks, waited>>

(* updatedAt alone, concurrently and so in any order.                      *)
Renew(e) ==
    /\ pass.at = "checking" /\ e \in pass.renew
    /\ earlier' = IF e \in invalid THEN ToEnd(invalid, e) ELSE earlier
    /\ pass' = [pass EXCEPT !.renew = @ \ {e}]
    /\ UNCHANGED <<live, invalid, checks, waited, fresh>>

RenewFails(e) ==
    /\ pass.at = "checking" /\ e \in pass.renew
    /\ pass' = [pass EXCEPT !.renew = @ \ {e}]
    /\ UNCHANGED <<live, invalid, earlier, checks, waited, fresh>>

Checking == pass.at = "checking" /\ pass.renew = {}

Check(e) ==
    /\ Checking /\ e \in pass.batch
    /\ CheckWritten(e)
    /\ pass' = [pass EXCEPT !.batch = @ \ {e}]

CheckFails(e) ==
    /\ Checking /\ e \in pass.batch
    /\ pass' = [pass EXCEPT !.batch = @ \ {e}]
    /\ UNCHANGED <<live, invalid, earlier, checks, waited, fresh>>

PassEnds ==
    /\ Checking /\ pass.batch = {}
    /\ pass' = Idle
    /\ UNCHANGED <<live, invalid, earlier, checks, waited, fresh>>

(* A read of the queues throws, or the process stops.                      *)
PassStops ==
    /\ pass.at # "idle"
    /\ pass' = Idle
    /\ fresh' = {}
    /\ UNCHANGED <<live, invalid, earlier, checks, waited>>

---------------------------------------------------------------------------
PassMoves ==
    \/ PassBegins \/ LoadLive \/ LoadInvalid \/ PassEnds
    \/ \E e \in Entries : Renew(e) \/ RenewFails(e) \/ Check(e) \/ CheckFails(e)

ScheduleNext ==
    \/ PassMoves \/ PassStops
    \/ \E e \in Entries : WaitEnds(e) \/ CheckedElsewhere(e) \/ Deregistered(e)

(* The interval timer starts passes, and what a pass awaits is answered or *)
(* fails; every wait ends.                                                 *)
ScheduleFairness ==
    /\ WF_scheduleVars(PassMoves)
    /\ \A e \in Entries : WF_scheduleVars(WaitEnds(e))

ScheduleSpec == ScheduleInit /\ [][ScheduleNext]_scheduleVars /\ ScheduleFairness

---------------------------------------------------------------------------
(* Properties.                                                             *)

(* An update fails, or a pass is cut short.                                *)
PassDisturbed ==
    \/ PassStops /\ ~PassEnds
    \/ \E e \in Entries : CheckFails(e) /\ ~Check(e)

(* Nobody overtakes in the queue of live entries: until an entry is        *)
(* checked, those ahead of it become fewer; each that is checked leaves    *)
(* them, and a pass that does not load the entry loads a page of them,     *)
(* unless somebody checked the entry since the pass noted its time.        *)
LiveMovesUp(e) ==
    \/ Check(e) \/ CheckedElsewhere(e)
    \/ /\ Ahead(live, e)' \subseteq Ahead(live, e)
       /\ \A f \in Entries : Check(f) => f \notin Ahead(live, e)'
       /\ LoadLive => \/ e \in pass'.batch \cup fresh
                      \/ /\ pass'.batch \subseteq Ahead(live, e)
                         /\ Cardinality(pass'.batch) = PageLength

(* Among the invalid ones an entry is overtaken only when the pass itself  *)
(* renews its time.  One whose wait was over when the pass noted its time, *)
(* and that was not checked since, is checked unless a page of such entries*)
(* is ahead that are not given up, or as many of those ahead as are checked*)
(* at all are checked now.                                                 *)
InvalidMovesUp(e) ==
    \/ Check(e) \/ CheckedElsewhere(e) \/ Renew(e)
    \/ /\ Ahead(invalid, e)' \subseteq Ahead(invalid, e)
       /\ LoadInvalid /\ e \in pass.renew \ fresh /\ checks[e] <= GiveUpAfter =>
             \/ e \in pass'.batch
             \/ Cardinality({f \in Ahead(invalid, e) \ fresh : checks[f] <= GiveUpAfter})
                   >= PageLength
             \/ Cardinality(Ahead(invalid, e) \cap pass'.batch) >= BatchLength

(* Whatever queries, mints, burns and failures do meanwhile, no entry is   *)
(* put behind others in its queue but by its own check, or by a pass that  *)
(* checks as many others instead as it ever does.                          *)
QueuesMoveUp ==
    [][/\ \A e \in live \cap live' : LiveMovesUp(e)
       /\ \A e \in invalid \cap invalid' : InvalidMovesUp(e)]_scheduleVars

(* What is given up stays so for the passes: once no pass holds it, only a *)
(* query or a mint checks it again.                                        *)
GivenUpIsLeft ==
    [][\A e \in invalid \ pass.batch :
          checks[e] > GiveUpAfter =>
             \/ CheckedElsewhere(e) \/ Deregistered(e)
             \/ e \in invalid' \ pass'.batch /\ checks'[e] > GiveUpAfter]_scheduleVars

(* An entry that stays online or offline is checked again and again, in    *)
(* whatever order checks by queries put the others, when there are more    *)
(* than a pass loads and updates do not keep failing.                      *)
LiveStaysWatched ==
    <>[][~PassDisturbed]_scheduleVars =>
        \A e \in Entries :
            <>[](e \in live)
                => []<><<Check(e) \/ CheckedElsewhere(e)>>_scheduleVars

(* An invalid entry is checked again until it is given up, although those  *)
(* that must wait keep the first places of the page and those whose turn   *)
(* does not come are put behind: what makes it so is that entries checked  *)
(* too often leave the queue.                                              *)
InvalidIsRetried ==
    <>[][~PassDisturbed]_scheduleVars =>
        \A e \in Entries :
            <>[](e \in invalid /\ checks[e] <= GiveUpAfter)
                => []<><<Check(e) \/ CheckedElsewhere(e)>>_scheduleVars
=============================================================================
