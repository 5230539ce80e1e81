---------------------------- MODULE DailyOps_proofs ----------------------------
(***************************************************************************)
(* Proofs about DailyOps: what the report, the checks and the dashboard    *)
(* say of a day, for every set of files, setters and checks.               *)
(*                                                                         *)
(* The invariant IInv has two halves.  DayOK: behind every label is a file *)
(* that some end of its script leaves, and behind every run that left one  *)
(* the file of that very end.  AlertsOK: what the checks hand one another. *)
(* From the first half and lemmas about the operators of the report, every *)
(* report shows every failure when it is built.  What it shows of the      *)
(* switch needs that one process changes the switch: that theorem names it *)
(* as hypothesis.  What one check says of itself needs that no two checks  *)
(* have overlapped: the property says so, the theorem assumes nothing.     *)
(***************************************************************************)
EXTENDS DailyOps, FiniteSetTheorems, SequenceTheorems, TLAPS

Levels == {"READY", "WARNING", "CRITICAL", "NO_ARTIFACTS"}

-----------------------------------------------------------------------------
(* What the flags tell of the files                                        *)

\* A script that ended with an error is told of by a flag of its own file, and
\* one that broke off as FAILED.
Told(dir, l, exit) ==
  \E t : Flag(l, t) \in AttentionFlags(dir) /\ (exit \in {5, 130} => t = "FAILED")

LEMMA SessionTold ==
  ASSUME NEW dir, NEW l \in SessionLabels, l \in DOMAIN dir, NEW e \in SessionEnds,
         e.left, e.exit # 0, dir[l] = e.body
  PROVE  Told(dir, l, e.exit)
<1>1. PICK t \in SessionTrouble(e.body) : e.exit \in {5, 130} => t = "FAILED"
  <2>1. \/ /\ e.body.outcome \in {"PREOPEN_BLOCKED", "POLLING_BLOCKED", "POLLING_LOCK_BUSY"}
           /\ e.exit = 4
        \/ e.body.outcome \in {"POLLING_INTERRUPTED", "PREOPEN_FAILED", "POLLING_FAILED",
                               "LOCK_PRECHECK_FAILED"}
    BY DEF SessionEnds, Session, End, Silent
  <2>2. "FAILED" \in SessionTrouble(e.body) \/ ("BLOCKED" \in SessionTrouble(e.body) /\ e.exit = 4)
    BY <2>1 DEF SessionTrouble
  <2>. QED  BY <2>2
<1>2. Flag(l, t) \in SessionFlags(dir)
  BY <1>1 DEF SessionFlags, Having
<1>. QED  BY <1>1, <1>2 DEF Told, AttentionFlags

LEMMA BuyTold ==
  ASSUME NEW dir, NEW l \in BuyLabels, l \in DOMAIN dir, NEW e \in BuyEnds(l),
         e.left, e.exit # 0, dir[l] = e.body
  PROVE  Told(dir, l, e.exit)
<1>1. PICK t \in BuyTrouble(e.body) : e.exit \in {5, 130} => t = "FAILED"
  <2>1. (e.body.error = TRUE) \/ (e.body.error = FALSE /\ e.exit = 4
          /\ e.body.stop = "MAX_DAILY_LOSS_REACHED")
    BY DEF BuyEnds, End, Silent
  <2>2. "FAILED" \in BuyTrouble(e.body) \/ ("BLOCKED" \in BuyTrouble(e.body) /\ e.exit = 4)
    BY <2>1 DEF BuyTrouble
  <2>. QED  BY <2>2
<1>2. Flag(l, t) \in ExecutionFlags(dir)
  <2>1. Flag(l, t) \in UNION {{Flag(k, u) : u \in BuyTrouble(dir[k])} :
                                 k \in Having(dir, BuyLabels)}
    BY <1>1 DEF Having
  <2>. QED  BY <2>1 DEF ExecutionFlags
<1>. QED  BY <1>1, <1>2 DEF Told, AttentionFlags

LEMMA SellTold ==
  ASSUME NEW dir, NEW l \in SellLabels, l \in DOMAIN dir, NEW e \in SellEnds(l),
         e.left, e.exit # 0, dir[l] = e.body
  PROVE  Told(dir, l, e.exit)
<1>1. "FAILED" \in SellTrouble(e.body)
  <2>1. (e.body.error = TRUE) \/ (e.body.error = FALSE /\ e.body.stop = "SELL_ORDER_REJECTED")
    BY DEF SellEnds, End, Silent
  <2>. QED  BY <2>1 DEF SellTrouble
<1>2. Flag(l, "FAILED") \in ExecutionFlags(dir)
  <2>1. Flag(l, "FAILED") \in UNION {{Flag(k, u) : u \in SellTrouble(dir[k])} :
                                 k \in Having(dir, SellLabels)}
    BY <1>1 DEF Having
  <2>. QED  BY <2>1 DEF ExecutionFlags
<1>. QED  BY <1>2 DEF Told, AttentionFlags

LEMMA AfterCloseTold ==
  ASSUME NEW dir, NEW l \in AfterCloseLabels, l \in DOMAIN dir, NEW e \in AfterCloseEnds(l),
         e.left, e.exit # 0, dir[l] = e.body
  PROVE  Told(dir, l, e.exit)
<1>1. PICK t \in AfterCloseTrouble(e.body) : e.exit \in {5, 130} => t = "FAILED"
  <2>1. e.body.outcome = "SESSION_FAILED" \/ (e.body.outcome = "LOCK_BUSY" /\ e.exit = 4)
    BY DEF AfterCloseEnds, End, Silent
  <2>2. "FAILED" \in AfterCloseTrouble(e.body)
          \/ ("BLOCKED" \in AfterCloseTrouble(e.body) /\ e.exit = 4)
    BY <2>1 DEF AfterCloseTrouble
  <2>. QED  BY <2>2
<1>2. Flag(l, t) \in AfterCloseFlags(dir)
  BY <1>1 DEF AfterCloseFlags, Having
<1>. QED  BY <1>1, <1>2 DEF Told, AttentionFlags

LEMMA MaintenanceTold ==
  ASSUME NEW dir, NEW l \in MaintenanceLabels, l \in DOMAIN dir,
         NEW e \in MaintenanceEnds(l), e.left, e.exit # 0, dir[l] = e.body
  PROVE  Told(dir, l, e.exit)
<1>1. e.body.error = TRUE
  BY DEF MaintenanceEnds, Maintenance, End, Silent
<1>2. Flag(l, "FAILED") \in MaintenanceFlags(dir)
  BY <1>1 DEF MaintenanceFlags, Having
<1>. QED  BY <1>2 DEF Told, AttentionFlags

LEMMA ImportTold ==
  ASSUME NEW dir, NEW l \in ImportLabels, l \in DOMAIN dir, NEW e \in ImportEnds(l),
         e.left, e.exit # 0, dir[l] = e.body
  PROVE  Told(dir, l, e.exit)
<1>1. e.body.error = TRUE
  BY DEF ImportEnds, End, Silent
<1>2. Flag(l, "FAILED") \in RecoveryFlags(dir)
  BY <1>1 DEF RecoveryFlags, Having
<1>. QED  BY <1>2 DEF Told, AttentionFlags

LEMMA StartupTold ==
  ASSUME NEW dir, "startup_check" \in DOMAIN dir, NEW e \in StartupEnds,
         e.left, e.exit # 0, dir["startup_check"] = e.body
  PROVE  Told(dir, "startup_check", e.exit)
<1>1. e.exit = 4 /\ e.body.outcome # "READY"
  BY DEF StartupEnds, End, Silent
<1>2. PICK t : Flag("startup_check", t) \in StartupFlags(dir)
  BY <1>1 DEF StartupFlags, Having
<1>. QED  BY <1>1, <1>2 DEF Told, AttentionFlags

LEMMA RehearsalTold ==
  ASSUME NEW dir, "rehearsal" \in DOMAIN dir, NEW e \in RehearsalEnds,
         e.left, e.exit # 0, dir["rehearsal"] = e.body
  PROVE  Told(dir, "rehearsal", e.exit)
<1>1. PICK outcome, pipeline :
        /\ e.body = [outcome |-> outcome, pipeline |-> pipeline]
        /\ e.exit = RehearsalExit(outcome)
        /\ outcome \in {"STARTUP_FAILED", "STARTUP_BLOCKED", "TRADING_SESSION_FAILED",
             "TRADING_SESSION_BLOCKED", "AFTER_CLOSE_FAILED", "AFTER_CLOSE_BLOCKED",
             "COMPLETED"}
  <2>1. PICK startup \in StartupEnds, session \in RehearsedSessionEnds,
             close \in AfterCloseEnds("after_close_preview"),
             timing2 \in BOOLEAN, closing \in BOOLEAN :
          LET outcome == RehearsalOutcome(startup, session, close, timing2, closing) IN
          /\ e.exit = RehearsalExit(outcome)
          /\ e.body = [outcome |-> outcome,
                       pipeline |-> IF outcome # "COMPLETED" \/ ~timing2 THEN "not_asked"
                                    ELSE session.body.pipeline]
    BY DEF RehearsalEnds, End, Silent
  <2>2. RehearsalOutcome(startup, session, close, timing2, closing) \in
            {"STARTUP_FAILED", "STARTUP_BLOCKED", "TRADING_SESSION_FAILED",
             "TRADING_SESSION_BLOCKED", "AFTER_CLOSE_FAILED", "AFTER_CLOSE_BLOCKED",
             "COMPLETED"}
    BY DEF RehearsalOutcome
  <2>. QED  BY <2>1, <2>2
<1>2. PICK t \in RehearsalTrouble(e.body) : e.exit \in {5, 130} => t = "FAILED"
  <2>1. outcome # "COMPLETED"
    BY <1>1 DEF RehearsalExit
  <2>2. "FAILED" \in RehearsalTrouble(e.body)
          \/ ("BLOCKED" \in RehearsalTrouble(e.body) /\ e.exit = 4)
    BY <1>1, <2>1 DEF RehearsalTrouble, RehearsalExit
  <2>. QED  BY <2>2
<1>3. Flag("rehearsal", t) \in RehearsalFlags(dir)
  BY <1>2 DEF RehearsalFlags, Having
<1>. QED  BY <1>2, <1>3 DEF Told, AttentionFlags

\* So for the file of any script.
LEMMA FailureTold ==
  ASSUME NEW dir, NEW l \in Labels, l \in DOMAIN dir, NEW e \in Ends(l),
         e.left, e.exit # 0, dir[l] = e.body
  PROVE  Told(dir, l, e.exit)
<1>1. CASE l \in SessionLabels
  <2>1. Ends(l) = SessionEnds
    BY <1>1 DEF Ends, SessionLabels, BuyLabels, SellLabels, AfterCloseLabels,
       MaintenanceLabels, ImportLabels
  <2>. QED  BY <1>1, <2>1, SessionTold
<1>2. CASE l \in BuyLabels
  <2>1. Ends(l) = BuyEnds(l)
    BY <1>2 DEF Ends, SessionLabels, BuyLabels, SellLabels, AfterCloseLabels,
       MaintenanceLabels, ImportLabels
  <2>. QED  BY <1>2, <2>1, BuyTold
<1>3. CASE l \in SellLabels
  <2>1. Ends(l) = SellEnds(l)
    BY <1>3 DEF Ends, SessionLabels, BuyLabels, SellLabels, AfterCloseLabels,
       MaintenanceLabels, ImportLabels
  <2>. QED  BY <1>3, <2>1, SellTold
<1>4. CASE l \in AfterCloseLabels
  <2>1. Ends(l) = AfterCloseEnds(l)
    BY <1>4 DEF Ends, SessionLabels, BuyLabels, SellLabels, AfterCloseLabels,
       MaintenanceLabels, ImportLabels
  <2>. QED  BY <1>4, <2>1, AfterCloseTold
<1>5. CASE l \in MaintenanceLabels
  <2>1. Ends(l) = MaintenanceEnds(l)
    BY <1>5 DEF Ends, SessionLabels, BuyLabels, SellLabels, AfterCloseLabels,
       MaintenanceLabels, ImportLabels
  <2>. QED  BY <1>5, <2>1, MaintenanceTold
<1>6. CASE l \in ImportLabels
  <2>1. Ends(l) = ImportEnds(l)
    BY <1>6 DEF Ends, SessionLabels, BuyLabels, SellLabels, AfterCloseLabels,
       MaintenanceLabels, ImportLabels
  <2>. QED  BY <1>6, <2>1, ImportTold
<1>7. CASE l = "startup_check"
  <2>1. Ends(l) = StartupEnds
    BY <1>7 DEF Ends, SessionLabels, BuyLabels, SellLabels, AfterCloseLabels,
       MaintenanceLabels, ImportLabels
  <2>. QED  BY <1>7, <2>1, StartupTold
<1>8. CASE l = "rehearsal"
  <2>1. Ends(l) = RehearsalEnds
    BY <1>8 DEF Ends, SessionLabels, BuyLabels, SellLabels, AfterCloseLabels,
       MaintenanceLabels, ImportLabels
  <2>. QED  BY <1>8, <2>1, RehearsalTold
<1>9. CASE l = "execution_recovery_review"
  <2>1. Ends(l) = ReviewEnds
    BY <1>9 DEF Ends, SessionLabels, BuyLabels, SellLabels, AfterCloseLabels,
       MaintenanceLabels, ImportLabels
  <2>. QED  BY <2>1 DEF ReviewEnds, End, Silent
<1>10. CASE l \in {"stale_signal_cleanup_review", "execution_recovery_draft"}
  <2>1. Ends(l) = {}
    BY <1>10 DEF Ends, SessionLabels, BuyLabels, SellLabels, AfterCloseLabels,
       MaintenanceLabels, ImportLabels
  <2>. QED  BY <2>1
<1>. QED  BY <1>1, <1>2, <1>3, <1>4, <1>5, <1>6, <1>7, <1>8, <1>9, <1>10, OpsAssumption
     DEF KnownLabels

\* A flag of a file is shown in the row of the file.
LEMMA OwnRow ==
  ASSUME NEW dir, NEW l \in KnownLabels, NEW t
  PROVE  SummaryKey(dir, Flag(l, t)) = l
<1>1. l # "kill_switch" /\ l # "order_maintenance"
  BY DEF KnownLabels, SessionLabels, BuyLabels, SellLabels, AfterCloseLabels,
     MaintenanceLabels, ImportLabels, SwitchLabels
<1>2. Flag(l, t)[1] = l /\ SwitchFlag[1] = "kill_switch"
        /\ ManualFlag[1] = "order_maintenance" /\ StaleFlag[1] = "order_maintenance"
  BY DEF Flag, SwitchFlag, ManualFlag, StaleFlag
<1>3. Flag(l, t) # SwitchFlag /\ Flag(l, t) # ManualFlag /\ Flag(l, t) # StaleFlag
  BY <1>1, <1>2
<1>. QED  BY <1>2, <1>3 DEF SummaryKey

\* So the report shows the failure, as a whole and in the row.
LEMMA FailureShown ==
  ASSUME NEW dir, NEW l \in Labels, l \in DOMAIN dir, NEW exit, Told(dir, l, exit)
  PROVE  LET flags == AttentionFlags(dir) IN
         /\ ReportOutcome(dir, flags) # "READY"
         /\ Health(dir, flags) # "READY"
         /\ RowLevel(dir, flags, l) # "READY"
         /\ exit \in {5, 130} /\ l \in ExecutingLabels => Health(dir, flags) = "CRITICAL"
<1>. DEFINE flags == AttentionFlags(dir)
<1>1. PICK t : Flag(l, t) \in flags /\ (exit \in {5, 130} => t = "FAILED")
  BY DEF Told
<1>2. SummaryKey(dir, Flag(l, t)) = l
  BY OwnRow, OpsAssumption
<1>3. DOMAIN dir # {} /\ flags # {}
  BY <1>1
<1>4. ReportOutcome(dir, flags) # "READY" /\ Health(dir, flags) # "READY"
  BY <1>3 DEF ReportOutcome, Health
<1>5. RowLevel(dir, flags, l) # "READY"
  BY <1>1, <1>2 DEF RowLevel
<1>6. ASSUME exit \in {5, 130}, l \in ExecutingLabels
      PROVE  Health(dir, flags) = "CRITICAL"
  <2>1. Flag(l, t) \in CriticalFlags
    BY <1>1, <1>6 DEF CriticalFlags, ExecutingLabels
  <2>. QED  BY <1>1, <1>3, <2>1 DEF Health
<1>. QED  BY <1>4, <1>5, <1>6

-----------------------------------------------------------------------------
(* The latest file of the kill switch                                      *)

SwitchRow == [enabled : BOOLEAN, stamp : 0..MaxEvents]

SwitchFilesOK(dir) == \A l \in Having(dir, SwitchLabels) : dir[l] \in SwitchRow

\* l is a later file than k.
Later(dir, k, l) ==
  \/ dir[k].stamp < dir[l].stamp
  \/ dir[k].stamp = dir[l].stamp /\ SwitchRank(k) < SwitchRank(l)

LEMMA LatestExists ==
  ASSUME NEW dir, SwitchFilesOK(dir), Having(dir, SwitchLabels) # {}
  PROVE  /\ LatestSwitch(dir) \in Having(dir, SwitchLabels)
         /\ \A k \in Having(dir, SwitchLabels) \ {LatestSwitch(dir)} :
              Later(dir, k, LatestSwitch(dir))
<1>. DEFINE H == Having(dir, SwitchLabels)
<1>1. \A k \in H : dir[k].stamp \in Int /\ SwitchRank(k) \in Int
  BY OpsAssumption DEF SwitchFilesOK, SwitchRow, Having, SwitchLabels, SwitchRank
<1>2. \A k, l \in H : k # l => SwitchRank(k) # SwitchRank(l)
  BY DEF Having, SwitchLabels, SwitchRank
<1>3. \A k, l \in H : k # l => Later(dir, k, l) \/ Later(dir, l, k)
  BY <1>1, <1>2 DEF Later
<1>4. \A j, k, l \in H : Later(dir, j, k) /\ Later(dir, k, l) => Later(dir, j, l)
  BY <1>1 DEF Later
<1>5. H \subseteq {"kill_switch_status", "kill_switch_enable", "kill_switch_disable"}
  BY DEF Having, SwitchLabels
<1>. HIDE DEF H
<1>6. \E l \in H : \A k \in H \ {l} : Later(dir, k, l)
  <2>1. PICK a \in H : TRUE
    BY DEF H
  <2>2. CASE \A k \in H \ {a} : Later(dir, k, a)
    BY <2>1, <2>2
  <2>3. ASSUME NEW b \in H \ {a}, ~Later(dir, b, a)
        PROVE  \E l \in H : \A k \in H \ {l} : Later(dir, k, l)
    <3>1. Later(dir, a, b)
      BY <1>3, <2>3
    <3>2. CASE \A k \in H \ {b} : Later(dir, k, b)
      BY <2>3, <3>2
    <3>3. ASSUME NEW c \in H \ {b}, ~Later(dir, c, b)
          PROVE  \A k \in H \ {c} : Later(dir, k, c)
      <4>1. Later(dir, b, c) /\ c # a
        BY <1>3, <2>3, <3>1, <3>3
      <4>2. Later(dir, a, c)
        BY <1>4, <2>3, <3>1, <3>3, <4>1
      <4>3. H = {a, b, c}
        BY <1>5, <2>3, <3>3, <4>1
      <4>. QED  BY <4>1, <4>2, <4>3
    <3>. QED  BY <3>2, <3>3
  <2>. QED  BY <2>2, <2>3
<1>7. LatestSwitch(dir) = CHOOSE l \in H : \A k \in H \ {l} : Later(dir, k, l)
  BY DEF LatestSwitch, Later, H
<1>. QED  BY <1>6, <1>7 DEF H

-----------------------------------------------------------------------------
(* Every action leads to a file that is there                              *)

LEMMA SharedFlags ==
  /\ ManualFlag[1] \notin MaintenanceLabels
  /\ StaleFlag[1] \notin MaintenanceLabels
  /\ SwitchFlag[1] \notin MaintenanceLabels
  /\ ManualFlag # SwitchFlag /\ StaleFlag # SwitchFlag /\ StaleFlag # ManualFlag
BY DEF ManualFlag, StaleFlag, SwitchFlag, Flag, MaintenanceLabels

LEMMA OwnReference ==
  ASSUME NEW dir, NEW l \in KnownLabels, l \in DOMAIN dir, NEW t
  PROVE  ReferenceKey(dir, Flag(l, t)) \in DOMAIN dir
<1>1. Flag(l, t)[1] = l
  BY DEF Flag
<1>2. CASE l \in MaintenanceLabels
  <2>1. SummaryKey(dir, ManualFlag) \in DOMAIN dir
    BY <1>2, SharedFlags DEF MaintenanceLabels, SummaryKey
  <2>. QED  BY <1>1, <1>2, <2>1 DEF ReferenceKey
<1>3. CASE l \notin MaintenanceLabels
  BY <1>1, <1>3, OwnRow DEF ReferenceKey
<1>. QED  BY <1>2, <1>3

LEMMA SwitchReference ==
  ASSUME NEW dir, SwitchFilesOK(dir), SwitchShown(dir)
  PROVE  ReferenceKey(dir, SwitchFlag) \in DOMAIN dir
<1>1. LatestSwitch(dir) \in DOMAIN dir
  BY LatestExists DEF SwitchShown, Having
<1>. QED  BY <1>1, SharedFlags DEF ReferenceKey, SummaryKey

LEMMA MaintenanceReference ==
  ASSUME NEW dir, NEW l \in MaintenanceLabels, l \in DOMAIN dir
  PROVE  /\ ReferenceKey(dir, ManualFlag) \in DOMAIN dir
         /\ StaleBlocked(dir[l]) > 0 => ReferenceKey(dir, StaleFlag) \in DOMAIN dir
<1>2. SummaryKey(dir, ManualFlag) \in DOMAIN dir
  BY SharedFlags DEF SummaryKey, MaintenanceLabels
<1>3. ASSUME StaleBlocked(dir[l]) > 0
      PROVE  SummaryKey(dir, StaleFlag) \in DOMAIN dir
  BY <1>3, SharedFlags DEF SummaryKey, MaintenanceLabels, Having
<1>. QED  BY <1>2, <1>3, SharedFlags DEF ReferenceKey

OfFile(dir, f) == \E l \in KnownLabels : l \in DOMAIN dir /\ \E t : f = Flag(l, t)

LEMMA FlagsLeadSomewhere ==
  ASSUME NEW dir, SwitchFilesOK(dir), NEW f \in AttentionFlags(dir)
  PROVE  ReferenceKey(dir, f) \in DOMAIN dir
<1>1. CASE f = SwitchFlag /\ SwitchShown(dir)
  BY <1>1, SwitchReference
<1>2. CASE OfFile(dir, f)
  BY <1>2, OwnReference DEF OfFile
<1>3. ASSUME f \in StartupFlags(dir)
      PROVE  OfFile(dir, f)
  BY <1>3 DEF OfFile, StartupFlags, Having, KnownLabels
<1>4. ASSUME f \in SessionFlags(dir)
      PROVE  OfFile(dir, f)
  BY <1>4 DEF OfFile, SessionFlags, Having, KnownLabels
<1>5. ASSUME f \in ExecutionFlags(dir)
      PROVE  OfFile(dir, f)
  BY <1>5 DEF OfFile, ExecutionFlags, Having, KnownLabels
<1>6. ASSUME f \in AfterCloseFlags(dir)
      PROVE  OfFile(dir, f)
  BY <1>6 DEF OfFile, AfterCloseFlags, Having, KnownLabels
<1>7. ASSUME f \in RecoveryFlags(dir)
      PROVE  OfFile(dir, f)
  BY <1>7 DEF OfFile, RecoveryFlags, Having, KnownLabels
<1>8. ASSUME f \in RehearsalFlags(dir)
      PROVE  OfFile(dir, f)
  BY <1>8 DEF OfFile, RehearsalFlags, Having, KnownLabels
<1>9. ASSUME f \in MaintenanceFlags(dir) PROVE ReferenceKey(dir, f) \in DOMAIN dir
  <2>1. PICK l \in MaintenanceLabels :
          /\ l \in DOMAIN dir
          /\ \/ f = Flag(l, "FAILED")
             \/ f = ManualFlag
             \/ f = StaleFlag /\ StaleBlocked(dir[l]) > 0
    BY <1>9 DEF MaintenanceFlags, Having
  <2>. QED  BY <2>1, OwnReference, MaintenanceReference DEF KnownLabels
<1>. QED  BY <1>1, <1>2, <1>3, <1>4, <1>5, <1>6, <1>7, <1>8, <1>9 DEF AttentionFlags

-----------------------------------------------------------------------------
(* The invariant                                                           *)

FilesOK ==
  /\ DOMAIN files \subseteq Labels \union SwitchLabels
  /\ torn \subseteq Labels
  /\ \A l \in DOMAIN files \ SwitchLabels : \E e \in Ends(l) : e.left /\ e.body = files[l]
  /\ SwitchFilesOK(files)
  /\ events \in 0..MaxEvents

\* The file behind a label is the one its last run left, unless that left none.
RanOK ==
  \A l \in DOMAIN ran : ran[l].left =>
    /\ l \in Labels /\ l \in DOMAIN files
    /\ \E e \in Ends(l) : e.left /\ e.body = files[l] /\ e.exit = ran[l].exit

SetterOK(t) ==
  /\ DOMAIN setter[t] = {"pc", "action", "row"}
  /\ setter[t].pc \in {"off", "commit", "file"}
  /\ setter[t].pc # "off" => setter[t].action \in SettersOf[t]
  /\ setter[t].pc = "commit" /\ setter[t].action # "status" =>
       setter[t].row.stamp \in 0..switch.given
  /\ setter[t].pc = "file" => setter[t].row \in SwitchRow

SwitchOK ==
  /\ switch \in [set : BOOLEAN, enabled : BOOLEAN, stamp : 0..MaxEvents,
                 given : 0..MaxEvents]
  /\ switch.given <= events
  /\ DOMAIN setter = Setters
  /\ \A t \in Setters : SetterOK(t)

\* The sequence of alerts, as a function.
SentFunction == Len(sent) \in Nat /\ sent = [i \in 1..Len(sent) |-> sent[i]]

Pending == {c \in Checks : check[c].pc \in {"report", "notify", "read_note", "dispatch"}}

\* A check sends one text at most, and has not sent it before it is at "record".
SentOK ==
  /\ SentFunction
  /\ IsFiniteSet(Pending)
  /\ checked \in 0..MaxChecks
  /\ Len(sent) + Cardinality(Pending) <= checked

Tellings == DispatchedOutcomes \union {"DUPLICATE_SKIPPED"}

CheckOK(c) ==
  /\ DOMAIN check[c] = {"pc", "args", "note", "outcome", "key"}
  /\ check[c].pc \in {"off", "report", "notify", "read_note", "dispatch", "record",
                      "read_record", "sum", "done"}
  /\ check[c].args \in Commands \union {NoCommand}
  /\ CheckAt(c, "notify") => report.exists
  /\ CheckAt(c, "read_note") => note.exists
  /\ CheckAt(c, "record") =>
       /\ check[c].outcome \in Tellings \union {"NO_NOTIFICATION"}
       /\ check[c].outcome \in Tellings => WasSent(check[c].key)

ChecksOK ==
  /\ DOMAIN check = Checks
  /\ \A c \in Checks : CheckOK(c)

\* What the checks hand to one another.
HandedOK ==
  /\ report.exists => report.health \in Levels
  /\ note.exists => note.health \in Levels
  /\ record.outcome \in Tellings \union {"none", "NO_NOTIFICATION"}
  /\ record.outcome \in Tellings => WasSent(record.key)
  /\ summary.exists /\ summary.of.exists => summary.health = summary.of.health

\* The history says of two checks that are under way now that they were.
HistoryOK == overlapped \in BOOLEAN /\ (Overlap => overlapped)

DayOK == FilesOK /\ RanOK /\ SwitchOK
AlertsOK == SentOK /\ ChecksOK /\ HandedOK /\ FailuresReported

IInv == DayOK /\ AlertsOK /\ HistoryOK

\* What holds beyond that if one process changes the switch: no file and no row
\* in hand is later than the row of the database, nor says other than it.
OneChanger ==
  \A t, u \in Setters :
    SettersOf[t] \ {"status"} # {} /\ SettersOf[u] \ {"status"} # {} => t = u

RowKnown(row) ==
  row.stamp <= switch.stamp /\ (row.stamp = switch.stamp => row.enabled = switch.enabled)

SwitchKnown ==
  /\ switch.stamp <= switch.given
  /\ \A l \in Having(files, SwitchLabels) : RowKnown(files[l])
  /\ \A t \in Setters :
       /\ setter[t].pc = "file" => RowKnown(setter[t].row)
       /\ setter[t].pc = "commit" /\ setter[t].action # "status" =>
            setter[t].row.stamp = switch.given /\ switch.stamp < switch.given

\* And what holds beyond that until checks overlap: the notification that a check
\* reads, sends and records is its own.
TruthKnown(c) ==
  ~check[c].args.send =>
    /\ CheckAt(c, "read_note") =>
         note.should = (note.health \in Eligible(check[c].args.level))
    /\ CheckAt(c, "dispatch") => check[c].note = note /\ note.should
    /\ CheckAt(c, "record") =>
         check[c].key = DispatchKey(check[c].note) /\ check[c].outcome \in Tellings
    /\ CheckAt(c, "read_record") =>
         record.key = DispatchKey(check[c].note) /\ record.outcome \in Tellings
    /\ check[c].pc \in {"sum", "done"} =>
         /\ check[c].outcome = "READY" => Milder(check[c].note.health, check[c].args.level)
         /\ check[c].outcome \in {"NOTIFICATION_DISPATCHED", "NOTIFICATION_DUPLICATE_SKIPPED"}
              => WasSent(DispatchKey(check[c].note))

-----------------------------------------------------------------------------
(* The alerts that were sent                                               *)

LEMMA SentGrows ==
  ASSUME SentFunction, NEW x, sent' = Append(sent, x)
  PROVE  /\ SentFunction' /\ Len(sent') = Len(sent) + 1
         /\ \A i \in 1..Len(sent) : sent'[i] = sent[i]
         /\ sent'[Len(sent) + 1] = x
<1>. DEFINE T == {sent[i] : i \in 1..Len(sent)} \union {x}
<1>1. sent \in Seq(T)
  <2>1. sent \in [1..Len(sent) -> T]
    BY DEF SentFunction
  <2>. QED  BY <2>1 DEF SentFunction
<1>. HIDE DEF T
<1>2. x \in T
  BY DEF T
<1>3. sent' \in Seq(T) /\ Len(sent') = Len(sent) + 1
        /\ (\A i \in 1..Len(sent) : sent'[i] = sent[i]) /\ sent'[Len(sent) + 1] = x
  BY <1>1, <1>2, AppendProperties
<1>4. Len(sent') \in Nat /\ sent' \in [1..Len(sent') -> T]
  BY <1>3, LenProperties
<1>5. sent' = [i \in 1..Len(sent') |-> sent'[i]]
  BY <1>4
<1>. QED  BY <1>3, <1>4, <1>5 DEF SentFunction

\* What was sent stays sent.
LEMMA StaysSent ==
  ASSUME SentFunction, sent' = sent \/ \E x : sent' = Append(sent, x),
         NEW key, WasSent(key)
  PROVE  WasSent(key)'
<1>1. PICK i \in 1..Len(sent) : sent[i].key = key
  BY DEF WasSent, SentFunction
<1>2. i \in 1..Len(sent') /\ sent'[i] = sent[i] /\ SentFunction'
  BY SentGrows DEF SentFunction
<1>3. DOMAIN sent' = 1..Len(sent')
  BY <1>2 DEF SentFunction
<1>. QED  BY <1>1, <1>2, <1>3 DEF WasSent

\* The step of one check.
Steps(c) == DOMAIN check' = Checks /\ \A d \in Checks \ {c} : check'[d] = check[d]

LEMMA PendingLess ==
  ASSUME NEW c \in Checks, Steps(c), IsFiniteSet(Pending), c \in Pending' => c \in Pending
  PROVE  /\ IsFiniteSet(Pending') /\ Cardinality(Pending') \in Nat
         /\ Cardinality(Pending) \in Nat
         /\ Cardinality(Pending') <= Cardinality(Pending)
         /\ c \in Pending /\ c \notin Pending' =>
              Cardinality(Pending') = Cardinality(Pending) - 1
<1>1. Pending' = Pending \/ Pending' = Pending \ {c}
  BY DEF Steps, Pending
<1>. HIDE DEF Pending
<1>2. Cardinality(Pending) \in Nat
  BY FS_CardinalityType
<1>3. IsFiniteSet(Pending') /\ Cardinality(Pending') \in Nat
  BY <1>1, FS_RemoveElement, FS_CardinalityType
<1>4. Cardinality(Pending \ {c}) =
        IF c \in Pending THEN Cardinality(Pending) - 1 ELSE Cardinality(Pending)
  BY FS_RemoveElement
<1>. QED  BY <1>1, <1>2, <1>3, <1>4

LEMMA PendingMore ==
  ASSUME NEW c \in Checks, Steps(c), IsFiniteSet(Pending)
  PROVE  /\ IsFiniteSet(Pending') /\ Cardinality(Pending') \in Nat
         /\ Cardinality(Pending) \in Nat
         /\ Cardinality(Pending') <= Cardinality(Pending) + 1
<1>1. CASE c \in Pending' => c \in Pending
  BY <1>1, PendingLess
<1>2. CASE c \in Pending' /\ c \notin Pending
  <2>1. Pending' = Pending \union {c}
    BY <1>2 DEF Steps, Pending
  <2>. HIDE DEF Pending
  <2>2. Cardinality(Pending) \in Nat
    BY FS_CardinalityType
  <2>3. IsFiniteSet(Pending') /\ Cardinality(Pending') = Cardinality(Pending) + 1
    BY <1>2, <2>1, FS_AddElement
  <2>. QED  BY <2>2, <2>3
<1>. QED  BY <1>1, <1>2

-----------------------------------------------------------------------------
(* Scripts and setters                                                     *)

LEMMA AlertsStay ==
  ASSUME AlertsOK, UNCHANGED alerts
  PROVE  AlertsOK'
<1>1. /\ report' = report /\ note' = note /\ record' = record /\ summary' = summary
      /\ check' = check /\ checked' = checked /\ sent' = sent
  BY DEF alerts
<1>2. Pending' = Pending /\ (\A key : WasSent(key)' <=> WasSent(key))
  BY <1>1 DEF Pending, WasSent
<1>3. SentOK' /\ HandedOK' /\ FailuresReported'
  BY <1>1, <1>2 DEF AlertsOK, SentOK, SentFunction, HandedOK, FailuresReported
<1>4. ChecksOK'
  BY <1>1, <1>2 DEF AlertsOK, ChecksOK, CheckOK, CheckAt
<1>. QED  BY <1>3, <1>4 DEF AlertsOK

LEMMA DayStays ==
  ASSUME DayOK, UNCHANGED <<scripts, switches>>
  PROVE  DayOK'
<1>1. /\ files' = files /\ torn' = torn /\ ran' = ran /\ events' = events
      /\ switch' = switch /\ setter' = setter
  BY DEF scripts, switches
<1>. QED  BY <1>1 DEF DayOK, FilesOK, RanOK, SwitchOK, SetterOK, SwitchFilesOK, Having

\* The files of the scripts and those of the switch are different ones.
LEMMA OwnFiles == Labels \intersect SwitchLabels = {}
BY OpsAssumption

LEMMA SwitchStays ==
  ASSUME SwitchOK, UNCHANGED switches, events' \in 0..MaxEvents, events <= events',
         events \in 0..MaxEvents
  PROVE  SwitchOK'
<1>1. switch' = switch /\ setter' = setter
  BY DEF switches
<1>2. switch'.given <= events'
  BY <1>1, OpsAssumption DEF SwitchOK
<1>. QED  BY <1>1, <1>2 DEF SwitchOK, SetterOK

LEMMA EventsGoOn ==
  ASSUME events \in 0..MaxEvents, events < MaxEvents, events' = events + 1
  PROVE  events' \in 0..MaxEvents /\ events <= events'
BY OpsAssumption

LEMMA ScriptRunsKeeps ==
  ASSUME DayOK, ScriptRuns
  PROVE  DayOK'
<1>1. events' \in 0..MaxEvents /\ events <= events' /\ events \in 0..MaxEvents
  BY EventsGoOn DEF ScriptRuns, DayOK, FilesOK
<1>2. UNCHANGED switches
  BY DEF ScriptRuns
<1>3. PICK run \in AllEnds :
        /\ files' = IF run[2].left THEN Written(files, run[1], run[2].body) ELSE files
        /\ torn' = IF run[2].left THEN torn \ {run[1]} ELSE torn
        /\ ran' = Written(ran, run[1], [exit |-> run[2].exit, left |-> run[2].left])
  BY DEF ScriptRuns
<1>4. PICK l \in Labels : \E e \in Ends(l) : run = <<l, e>>
  BY <1>3 DEF AllEnds
<1>5. PICK e \in Ends(l) : run = <<l, e>>
  BY <1>4
<1>6. run[1] = l /\ run[2] = e /\ l \notin SwitchLabels
  BY <1>5, OwnFiles
<1>7. SwitchOK'
  BY <1>1, <1>2, SwitchStays DEF DayOK
<1>8. CASE e.left
  <2>1. DOMAIN files' = DOMAIN files \union {l}
          /\ \A k \in DOMAIN files' : files'[k] = IF k = l THEN e.body ELSE files[k]
    BY <1>3, <1>6, <1>8 DEF Written
  <2>2. DOMAIN ran' = DOMAIN ran \union {l}
          /\ ran'[l].left = e.left /\ ran'[l].exit = e.exit
          /\ \A k \in DOMAIN ran' : k # l => ran'[k] = ran[k]
    BY <1>3, <1>6 DEF Written
  <2>3. SwitchFilesOK(files')
    BY <1>6, <2>1 DEF DayOK, FilesOK, SwitchFilesOK, Having
  <2>4. \A k \in DOMAIN files' \ SwitchLabels : \E d \in Ends(k) : d.left /\ d.body = files'[k]
    BY <1>5, <1>8, <2>1 DEF DayOK, FilesOK
  <2>5. FilesOK'
    BY <1>1, <1>2, <1>3, <1>6, <1>8, <2>1, <2>3, <2>4 DEF DayOK, FilesOK
  <2>6. RanOK'
    BY <1>5, <1>8, <2>1, <2>2 DEF DayOK, RanOK
  <2>. QED  BY <1>7, <2>5, <2>6 DEF DayOK
<1>9. CASE ~e.left
  <2>1. files' = files /\ torn' = torn
    BY <1>3, <1>6, <1>9
  <2>2. DOMAIN ran' = DOMAIN ran \union {l} /\ ran'[l].left = e.left
          /\ \A k \in DOMAIN ran' : k # l => ran'[k] = ran[k]
    BY <1>3, <1>6 DEF Written
  <2>3. FilesOK'
    BY <1>1, <1>2, <2>1 DEF DayOK, FilesOK
  <2>4. RanOK'
    BY <1>9, <2>1, <2>2 DEF DayOK, RanOK
  <2>. QED  BY <1>7, <2>3, <2>4 DEF DayOK
<1>. QED  BY <1>8, <1>9

LEMMA ScriptDiesWritingKeeps ==
  ASSUME DayOK, ScriptDiesWriting
  PROVE  DayOK'
<1>1. events' \in 0..MaxEvents /\ events <= events' /\ events \in 0..MaxEvents
  BY EventsGoOn DEF ScriptDiesWriting, DayOK, FilesOK
<1>2. UNCHANGED switches /\ files' = files
  BY DEF ScriptDiesWriting
<1>3. PICK l \in Labels : /\ torn' = torn \union {l}
                          /\ ran' = Written(ran, l, [exit |-> -1, left |-> FALSE])
  BY DEF ScriptDiesWriting
<1>4. FilesOK'
  BY <1>1, <1>2, <1>3 DEF DayOK, FilesOK
<1>5. DOMAIN ran' = DOMAIN ran \union {l} /\ ~ran'[l].left
        /\ \A k \in DOMAIN ran' : k # l => ran'[k] = ran[k]
  BY <1>3 DEF Written
<1>6. RanOK'
  BY <1>2, <1>5 DEF DayOK, RanOK
<1>. QED  BY <1>1, <1>2, <1>4, <1>6, SwitchStays DEF DayOK

LEMMA SetterStartsKeeps ==
  ASSUME DayOK, NEW t \in Setters, SetterStarts(t)
  PROVE  DayOK'
<1>1. events' \in 0..MaxEvents /\ events' = events + 1 /\ events \in 0..MaxEvents
  BY EventsGoOn DEF SetterStarts, DayOK, FilesOK
<1>2. files' = files /\ torn' = torn /\ ran' = ran
  BY DEF SetterStarts
<1>3. PICK action \in SettersOf[t] :
       /\ setter' = [setter EXCEPT ![t].pc = "commit", ![t].action = action,
                                   ![t].row = [stamp |-> switch.given + 1]]
       /\ switch' = IF action = "status" THEN switch
                    ELSE [switch EXCEPT !.given = @ + 1]
  BY DEF SetterStarts
<1>4. FilesOK' /\ RanOK'
  BY <1>1, <1>2 DEF DayOK, FilesOK, RanOK
<1>5. switch.given \in 0..MaxEvents /\ switch.given <= events /\ DOMAIN setter = Setters
        /\ \A u \in Setters : SetterOK(u)
  BY DEF DayOK, SwitchOK
<1>6. switch' \in [set : BOOLEAN, enabled : BOOLEAN, stamp : 0..MaxEvents,
                   given : 0..MaxEvents]
        /\ switch'.given <= events' /\ switch.given <= switch'.given
        /\ (action # "status" => switch'.given = switch.given + 1)
  BY <1>1, <1>3, <1>5, OpsAssumption DEF DayOK, SwitchOK
<1>7. DOMAIN setter' = Setters /\ \A u \in Setters \ {t} : setter'[u] = setter[u]
  BY <1>3, <1>5
<1>8. SetterOK(t)'
  <2>1. DOMAIN setter[t] = {"pc", "action", "row"}
    BY <1>5 DEF SetterOK
  <2>2. DOMAIN setter'[t] = {"pc", "action", "row"} /\ setter'[t].pc = "commit"
          /\ setter'[t].action = action /\ setter'[t].row = [stamp |-> switch.given + 1]
    BY <1>3, <1>5, <2>1
  <2>. QED  BY <1>3, <1>5, <1>6, <2>2, OpsAssumption DEF SetterOK
<1>9. ASSUME NEW u \in Setters \ {t} PROVE SetterOK(u)'
  <2>1. setter[u].row.stamp \in 0..switch.given => setter[u].row.stamp \in 0..switch'.given
    BY <1>5, <1>6
  <2>. QED  BY <1>5, <1>7, <2>1 DEF SetterOK
<1>. QED  BY <1>4, <1>6, <1>7, <1>8, <1>9 DEF DayOK, SwitchOK

LEMMA SetterCommitsKeeps ==
  ASSUME DayOK, NEW t \in Setters, SetterCommits(t)
  PROVE  DayOK'
<1>. DEFINE row == IF setter[t].action = "status"
                   THEN [enabled |-> switch.enabled, stamp |-> switch.stamp]
                   ELSE [enabled |-> setter[t].action = "enable",
                         stamp   |-> setter[t].row.stamp]
<1>1. FilesOK' /\ RanOK' /\ events' = events
  BY DEF SetterCommits, scripts, DayOK, FilesOK, RanOK
<1>2. /\ switch' = IF setter[t].action = "status" THEN switch
                   ELSE [switch EXCEPT !.set = TRUE, !.enabled = row.enabled,
                                       !.stamp = row.stamp]
      /\ setter' = [setter EXCEPT ![t].pc = "file", ![t].row = row]
      /\ setter[t].pc = "commit"
  BY DEF SetterCommits
<1>3. DOMAIN setter = Setters /\ \A u \in Setters : SetterOK(u)
  BY DEF DayOK, SwitchOK
<1>4. row \in SwitchRow
  BY <1>2, <1>3, OpsAssumption DEF DayOK, SwitchOK, SetterOK, SwitchRow
<1>5. switch' \in [set : BOOLEAN, enabled : BOOLEAN, stamp : 0..MaxEvents,
                   given : 0..MaxEvents]
        /\ switch'.given = switch.given
  BY <1>2, <1>4 DEF DayOK, SwitchOK, SwitchRow
<1>. HIDE DEF row
<1>6. DOMAIN setter' = Setters /\ \A u \in Setters \ {t} : setter'[u] = setter[u]
  BY <1>2, <1>3
<1>7. SetterOK(t)'
  <2>1. DOMAIN setter'[t] = {"pc", "action", "row"} /\ setter'[t].pc = "file"
          /\ setter'[t].action = setter[t].action /\ setter'[t].row = row
    BY <1>2, <1>3 DEF SetterOK
  <2>. QED  BY <1>2, <1>3, <1>4, <2>1 DEF SetterOK
<1>8. ASSUME NEW u \in Setters \ {t} PROVE SetterOK(u)'
  BY <1>3, <1>5, <1>6 DEF SetterOK
<1>. QED  BY <1>1, <1>5, <1>6, <1>7, <1>8 DEF DayOK, SwitchOK

\* A setter that has nothing in hand any more.
LEMMA SetterEnds ==
  ASSUME SwitchOK, NEW t \in Setters, UNCHANGED <<switch, events>>,
         setter' = [setter EXCEPT ![t].pc = "off", ![t].action = "none",
                                  ![t].row = [none |-> TRUE]]
  PROVE  SwitchOK'
<1>1. DOMAIN setter = Setters /\ \A u \in Setters : SetterOK(u)
  BY DEF SwitchOK
<1>2. DOMAIN setter' = Setters /\ \A u \in Setters \ {t} : setter'[u] = setter[u]
  BY <1>1
<1>3. SetterOK(t)'
  <2>1. DOMAIN setter'[t] = {"pc", "action", "row"} /\ setter'[t].pc = "off"
    BY <1>1 DEF SetterOK
  <2>. QED  BY <2>1 DEF SetterOK
<1>4. ASSUME NEW u \in Setters \ {t} PROVE SetterOK(u)'
  BY <1>1, <1>2 DEF SetterOK
<1>. QED  BY <1>2, <1>3, <1>4 DEF SwitchOK

LEMMA SetterWritesKeeps ==
  ASSUME DayOK, NEW t \in Setters, SetterWrites(t)
  PROVE  DayOK'
<1>. DEFINE l == SwitchLabel(setter[t].action)
<1>1. /\ files' = Written(files, l, setter[t].row)
      /\ torn' = torn /\ ran' = ran /\ events' = events
      /\ setter[t].pc = "file"
  BY DEF SetterWrites
<1>2. setter[t].row \in SwitchRow /\ setter[t].action \in {"enable", "disable", "status"}
  BY <1>1, OpsAssumption DEF DayOK, SwitchOK, SetterOK
<1>3. l \in SwitchLabels
  BY <1>2 DEF SwitchLabel, SwitchLabels
<1>. HIDE DEF l
<1>4. DOMAIN files' = DOMAIN files \union {l}
        /\ \A k \in DOMAIN files' : files'[k] = IF k = l THEN setter[t].row ELSE files[k]
  BY <1>1 DEF Written
<1>5. SwitchFilesOK(files')
  BY <1>2, <1>4 DEF DayOK, FilesOK, SwitchFilesOK, Having
<1>6. FilesOK'
  BY <1>1, <1>3, <1>4, <1>5 DEF DayOK, FilesOK
<1>7. RanOK'
  BY <1>1, <1>3, <1>4, OwnFiles DEF DayOK, RanOK
<1>8. SwitchOK'
  BY SetterEnds DEF SetterWrites, DayOK
<1>. QED  BY <1>6, <1>7, <1>8 DEF DayOK

LEMMA SetterLeavesNoFileKeeps ==
  ASSUME DayOK, NEW t \in Setters, SetterLeavesNoFile(t)
  PROVE  DayOK'
<1>1. FilesOK' /\ RanOK' /\ events' = events
  BY DEF SetterLeavesNoFile, scripts, DayOK, FilesOK, RanOK
<1>2. SwitchOK'
  BY <1>1, SetterEnds DEF SetterLeavesNoFile, DayOK
<1>. QED  BY <1>1, <1>2 DEF DayOK

-----------------------------------------------------------------------------
(* Checks                                                                  *)

LEMMA ChecksGoOn ==
  ASSUME ChecksOK, SentFunction, NEW c \in Checks, Steps(c), CheckOK(c)',
         report.exists => report'.exists, note.exists => note'.exists,
         sent' = sent \/ \E x : sent' = Append(sent, x)
  PROVE  ChecksOK'
<1>1. ASSUME NEW d \in Checks \ {c} PROVE CheckOK(d)'
  <2>1. CheckOK(d) /\ check'[d] = check[d]
    BY DEF ChecksOK, Steps
  <2>2. \A key : WasSent(key) => WasSent(key)'
    BY StaysSent
  <2>. QED  BY <2>1, <2>2 DEF CheckOK, CheckAt
<1>. QED  BY <1>1 DEF ChecksOK, Steps

LEMMA SentGoesOn ==
  ASSUME SentOK, NEW c \in Checks, Steps(c), UNCHANGED <<sent, checked>>,
         c \in Pending' => c \in Pending
  PROVE  SentOK'
<1>1. SentFunction' /\ checked' = checked /\ Len(sent') = Len(sent)
  BY DEF SentOK, SentFunction
<1>2. IsFiniteSet(Pending') /\ Cardinality(Pending') \in Nat /\ Cardinality(Pending) \in Nat
        /\ Cardinality(Pending') <= Cardinality(Pending)
  BY PendingLess DEF SentOK
<1>. QED  BY <1>1, <1>2 DEF SentOK, SentFunction

LEMMA HandedStays ==
  ASSUME HandedOK, UNCHANGED <<report, note, record, summary, sent>>
  PROVE  HandedOK'
BY DEF HandedOK, WasSent

LEMMA ReportStays ==
  ASSUME FailuresReported, report' = report
  PROVE  FailuresReported'
BY DEF FailuresReported

LEMMA CheckStartsKeeps ==
  ASSUME AlertsOK, NEW c \in Checks, CheckStarts(c)
  PROVE  AlertsOK'
<1>1. PICK args \in Commands :
        /\ args.send => note.exists
        /\ check' = [check EXCEPT ![c] = [NotChecking EXCEPT !.args = args,
                        !.pc = IF args.send THEN "dispatch" ELSE "report"]]
  BY DEF CheckStarts
<1>2. UNCHANGED <<report, note, record, summary, sent>> /\ checked' = checked + 1
        /\ checked < MaxChecks
  BY DEF CheckStarts
<1>3. Steps(c)
  BY <1>1 DEF AlertsOK, ChecksOK, Steps
<1>4. DOMAIN check'[c] = {"pc", "args", "note", "outcome", "key"} /\ check'[c].args = args
        /\ check'[c].pc \in {"dispatch", "report"}
  BY <1>1 DEF AlertsOK, ChecksOK, NotChecking
<1>5. CheckOK(c)'
  BY <1>4 DEF CheckOK, CheckAt
<1>6. ChecksOK'
  BY <1>2, <1>3, <1>5, ChecksGoOn DEF AlertsOK, SentOK
<1>7. IsFiniteSet(Pending') /\ Cardinality(Pending') \in Nat /\ Cardinality(Pending) \in Nat
        /\ Cardinality(Pending') <= Cardinality(Pending) + 1
  BY <1>3, PendingMore DEF AlertsOK, SentOK
<1>8. SentFunction' /\ Len(sent') = Len(sent)
  BY <1>2 DEF AlertsOK, SentOK, SentFunction
<1>9. SentOK'
  BY <1>2, <1>7, <1>8, OpsAssumption DEF AlertsOK, SentOK, SentFunction
<1>. QED  BY <1>2, <1>6, <1>9, HandedStays, ReportStays DEF AlertsOK

\* Every report is one that shows the failures, whatever the files are.
LEMMA ReportShows ==
  ASSUME FilesOK, RanOK, report' = BuiltReport
  PROVE  FailuresReported' /\ report'.exists /\ report'.health \in Levels
<1>. DEFINE flags == AttentionFlags(files)
<1>1. /\ report'.outcome = ReportOutcome(files, flags)
      /\ report'.health = Health(files, flags)
      /\ report'.rows = [l \in DOMAIN files |-> RowLevel(files, flags, l)]
      /\ report'.actions = Actions(files, flags)
      /\ report'.ran = ran
      /\ report'.exists
  BY DEF BuiltReport
<1>2. report'.health \in Levels
  BY <1>1 DEF Health, Levels
<1>3. ASSUME NEW l \in DOMAIN ran, ran[l].left, ran[l].exit # 0
      PROVE  /\ report'.outcome # "READY" /\ report'.health # "READY"
             /\ report'.rows[l] # "READY"
             /\ ran[l].exit \in {5, 130} /\ l \in ExecutingLabels =>
                  report'.health = "CRITICAL"
  <2>1. l \in Labels /\ l \in DOMAIN files
          /\ \E e \in Ends(l) : e.left /\ e.body = files[l] /\ e.exit = ran[l].exit
    BY <1>3 DEF RanOK
  <2>2. Told(files, l, ran[l].exit)
    <3>1. PICK e \in Ends(l) : e.left /\ e.body = files[l] /\ e.exit = ran[l].exit
      BY <2>1
    <3>2. Told(files, l, e.exit)
      BY <1>3, <2>1, <3>1, FailureTold
    <3>. QED  BY <3>1, <3>2
  <2>3. report'.rows[l] = RowLevel(files, flags, l)
    BY <1>1, <2>1
  <2>. QED  BY <1>1, <2>1, <2>2, <2>3, FailureShown
<1>4. ASSUME NEW action \in report'.actions
      PROVE  action.reference \in DOMAIN report'.rows
  <2>1. PICK f \in flags : action = [code |-> ActionCode(f), reference |-> ReferenceKey(files, f)]
    BY <1>1, <1>4 DEF Actions
  <2>2. ReferenceKey(files, f) \in DOMAIN files
    BY FlagsLeadSomewhere DEF FilesOK
  <2>. QED  BY <1>1, <2>1, <2>2
<1>5. \A l \in DOMAIN ran : ran[l].left /\ ran[l].exit \in {5, 130} => ran[l].exit # 0
  OBVIOUS
<1>. QED  BY <1>1, <1>2, <1>3, <1>4, <1>5 DEF FailuresReported

LEMMA BuildReportKeeps ==
  ASSUME DayOK, AlertsOK, NEW c \in Checks, BuildReport(c)
  PROVE  AlertsOK'
<1>1. /\ CheckAt(c, "report") /\ report' = BuiltReport /\ CheckGoes(c, "notify")
      /\ UNCHANGED <<note, record, summary, checked, sent>>
  BY DEF BuildReport
<1>2. FailuresReported' /\ report'.exists /\ report'.health \in Levels
  BY <1>1, ReportShows DEF DayOK
<1>3. Steps(c) /\ check'[c] = [check[c] EXCEPT !.pc = "notify"]
  BY <1>1 DEF AlertsOK, ChecksOK, Steps, CheckGoes
<1>4. CheckOK(c)'
  BY <1>2, <1>3 DEF AlertsOK, ChecksOK, CheckOK, CheckAt
<1>5. ChecksOK'
  BY <1>1, <1>2, <1>3, <1>4, ChecksGoOn DEF AlertsOK, SentOK
<1>6. SentOK'
  <2>1. c \in Pending
    BY <1>1 DEF Pending, CheckAt
  <2>. QED  BY <1>1, <1>3, <2>1, SentGoesOn DEF AlertsOK
<1>7. HandedOK'
  BY <1>1, <1>2 DEF AlertsOK, HandedOK, WasSent
<1>. QED  BY <1>2, <1>5, <1>6, <1>7 DEF AlertsOK

\* A step of a check that writes no file and sends nothing.
LEMMA CheckMoves ==
  ASSUME AlertsOK, NEW c \in Checks, Steps(c), CheckOK(c)', c \in Pending' => c \in Pending,
         UNCHANGED <<report, note, record, summary, checked, sent>>
  PROVE  AlertsOK'
<1>1. ChecksOK'
  BY ChecksGoOn DEF AlertsOK, SentOK
<1>2. SentOK'
  BY SentGoesOn DEF AlertsOK
<1>. QED  BY <1>1, <1>2, HandedStays, ReportStays DEF AlertsOK

LEMMA ReportFailsKeeps ==
  ASSUME AlertsOK, NEW c \in Checks, ReportFails(c)
  PROVE  AlertsOK'
<1>1. CheckAt(c, "report") /\ UNCHANGED <<report, note, record, summary, checked, sent>>
  BY DEF ReportFails
<1>2. \/ report.exists /\ check' = [check EXCEPT ![c].pc = "notify"]
      \/ check' = [check EXCEPT ![c].pc = "sum", ![c].outcome = "REPORT_FAILED"]
  BY DEF ReportFails, CheckGoes, CheckEnds
<1>3. Steps(c) /\ DOMAIN check'[c] = DOMAIN check[c] /\ check'[c].args = check[c].args
  BY <1>2 DEF AlertsOK, ChecksOK, CheckOK, Steps
<1>4. check'[c].pc = "sum" \/ (check'[c].pc = "notify" /\ report.exists)
  BY <1>2 DEF AlertsOK, ChecksOK, CheckOK
<1>5. CheckOK(c)'
  BY <1>1, <1>3, <1>4 DEF AlertsOK, ChecksOK, CheckOK, CheckAt
<1>6. c \in Pending
  BY <1>1 DEF Pending, CheckAt
<1>. QED  BY <1>1, <1>3, <1>5, <1>6, CheckMoves

LEMMA PrepareNotificationKeeps ==
  ASSUME AlertsOK, NEW c \in Checks, PrepareNotification(c)
  PROVE  AlertsOK'
<1>1. /\ CheckAt(c, "notify") /\ check' = [check EXCEPT ![c].pc = "read_note"]
      /\ UNCHANGED <<report, record, summary, checked, sent>>
  BY DEF PrepareNotification, CheckGoes
<1>2. note'.exists /\ note'.health = report.health
  BY DEF PrepareNotification, Notification
<1>3. Steps(c) /\ DOMAIN check'[c] = DOMAIN check[c] /\ check'[c].args = check[c].args
        /\ check'[c].pc = "read_note"
  BY <1>1 DEF AlertsOK, ChecksOK, CheckOK, Steps
<1>4. CheckOK(c)'
  BY <1>1, <1>2, <1>3 DEF AlertsOK, ChecksOK, CheckOK, CheckAt
<1>5. ChecksOK'
  BY <1>1, <1>2, <1>3, <1>4, ChecksGoOn DEF AlertsOK, SentOK
<1>6. SentOK'
  <2>1. c \in Pending
    BY <1>1 DEF Pending, CheckAt
  <2>. QED  BY <1>1, <1>3, <2>1, SentGoesOn DEF AlertsOK
<1>7. HandedOK'
  <2>1. report.exists
    BY <1>1 DEF AlertsOK, ChecksOK, CheckOK
  <2>. QED  BY <1>1, <1>2, <2>1 DEF AlertsOK, HandedOK, WasSent
<1>. QED  BY <1>1, <1>5, <1>6, <1>7, ReportStays DEF AlertsOK

LEMMA ReadNotificationKeeps ==
  ASSUME AlertsOK, NEW c \in Checks, ReadNotification(c)
  PROVE  AlertsOK'
<1>1. CheckAt(c, "read_note") /\ UNCHANGED <<report, note, record, summary, checked, sent>>
  BY DEF ReadNotification
<1>2. Steps(c) /\ DOMAIN check'[c] = DOMAIN check[c] /\ check'[c].args = check[c].args
        /\ check'[c].pc \in {"dispatch", "sum"}
  BY DEF ReadNotification, AlertsOK, ChecksOK, CheckOK, Steps
<1>3. CheckOK(c)'
  BY <1>1, <1>2 DEF AlertsOK, ChecksOK, CheckOK, CheckAt
<1>4. c \in Pending
  BY <1>1 DEF Pending, CheckAt
<1>. QED  BY <1>1, <1>2, <1>3, <1>4, CheckMoves

LEMMA Outcomes ==
  ASSUME NEW given, NEW about, NEW force
  PROVE  /\ DispatchOutcome(given, about, force) \in Tellings \union {"NO_NOTIFICATION"}
         /\ about.should => DispatchOutcome(given, about, force) \in Tellings
         /\ DispatchOutcome(given, about, force) = "DUPLICATE_SKIPPED" =>
              given.key = DispatchKey(about) /\ given.outcome \in DispatchedOutcomes
BY DEF DispatchOutcome, IsDuplicate, Tellings, DispatchedOutcomes

\* What the sender is about to record was sent, by it or before.
LEMMA TextIsSent ==
  ASSUME AlertsOK, NEW c \in Checks, SendText(c)
  PROVE  LET outcome == DispatchOutcome(record, note, check[c].args.force) IN
         /\ sent' = sent \/ \E x : sent' = Append(sent, x)
         /\ outcome \notin DispatchedOutcomes => sent' = sent
         /\ outcome \in Tellings => WasSent(DispatchKey(note))'
<1>. DEFINE outcome == DispatchOutcome(record, note, check[c].args.force)
            alert == [key |-> DispatchKey(note), force |-> check[c].args.force]
<1>1. sent' = IF outcome \in DispatchedOutcomes THEN Append(sent, alert) ELSE sent
  BY DEF SendText
<1>2. outcome = "DUPLICATE_SKIPPED" => outcome \notin DispatchedOutcomes
  BY DEF DispatchedOutcomes
<1>3. outcome = "DUPLICATE_SKIPPED" => WasSent(DispatchKey(note))
  BY Outcomes DEF AlertsOK, HandedOK, Tellings
<1>4. alert.key = DispatchKey(note) /\ note' = note
  BY DEF SendText
<1>. HIDE DEF outcome, alert
<1>5. CASE outcome \in DispatchedOutcomes
  <2>1. SentFunction' /\ Len(sent') = Len(sent) + 1 /\ sent'[Len(sent) + 1] = alert
          /\ Len(sent) \in Nat
    BY <1>1, <1>5, SentGrows DEF AlertsOK, SentOK, SentFunction
  <2>2. Len(sent') \in DOMAIN sent' /\ sent'[Len(sent')] = alert
    BY <2>1 DEF SentFunction
  <2>3. WasSent(DispatchKey(note))'
    BY <1>4, <2>2 DEF WasSent
  <2>. QED  BY <1>1, <1>5, <2>3 DEF outcome
<1>6. CASE outcome \notin DispatchedOutcomes
  <2>1. sent' = sent
    BY <1>1, <1>6
  <2>2. outcome \in Tellings => WasSent(DispatchKey(note))'
    BY <1>3, <1>4, <1>6, <2>1 DEF WasSent, Tellings
  <2>. QED  BY <1>6, <2>1, <2>2 DEF outcome
<1>. QED  BY <1>5, <1>6

LEMMA SendTextKeeps ==
  ASSUME AlertsOK, NEW c \in Checks, SendText(c)
  PROVE  AlertsOK'
<1>. DEFINE outcome == DispatchOutcome(record, note, check[c].args.force)
<1>1. /\ CheckAt(c, "dispatch") /\ UNCHANGED <<report, note, record, summary, checked>>
      /\ check' = [check EXCEPT ![c].pc = "record", ![c].outcome = outcome,
                                ![c].key = DispatchKey(note)]
  BY DEF SendText
<1>2. Steps(c) /\ DOMAIN check'[c] = DOMAIN check[c] /\ check'[c].args = check[c].args
        /\ check'[c].pc = "record" /\ check'[c].outcome = outcome
        /\ check'[c].key = DispatchKey(note)
  BY <1>1 DEF AlertsOK, ChecksOK, CheckOK, Steps
<1>3. /\ sent' = sent \/ \E x : sent' = Append(sent, x)
      /\ outcome \in Tellings => WasSent(DispatchKey(note))'
  BY TextIsSent
<1>4. outcome \in Tellings \union {"NO_NOTIFICATION"}
  BY Outcomes
<1>. HIDE DEF outcome
<1>5. CheckOK(c)'
  <2>1. WasSent(check[c].key)' <=> WasSent(DispatchKey(note))'
    BY <1>1, <1>2 DEF WasSent
  <2>. QED  BY <1>2, <1>3, <1>4, <2>1 DEF AlertsOK, ChecksOK, CheckOK, CheckAt
<1>6. ChecksOK'
  BY <1>1, <1>2, <1>3, <1>5, ChecksGoOn DEF AlertsOK, SentOK
<1>7. SentOK'
  <2>1. c \in Pending /\ c \notin Pending'
    BY <1>1, <1>2 DEF Pending, CheckAt
  <2>2. IsFiniteSet(Pending') /\ Cardinality(Pending') \in Nat
          /\ Cardinality(Pending) \in Nat
          /\ Cardinality(Pending') = Cardinality(Pending) - 1
    BY <1>2, <2>1, PendingLess DEF AlertsOK, SentOK
  <2>3. SentFunction' /\ Len(sent') <= Len(sent) + 1 /\ Len(sent') \in Nat
          /\ Len(sent) \in Nat
    <3>1. CASE sent' = sent
      BY <3>1 DEF AlertsOK, SentOK, SentFunction
    <3>2. CASE \E x : sent' = Append(sent, x)
      BY <3>2, SentGrows DEF AlertsOK, SentOK, SentFunction
    <3>. QED  BY <1>3, <3>1, <3>2
  <2>. QED  BY <1>1, <2>2, <2>3 DEF AlertsOK, SentOK
<1>8. HandedOK'
  <2>1. \A key : WasSent(key) => WasSent(key)'
    BY <1>3, StaysSent DEF AlertsOK, SentOK
  <2>2. record.outcome \in Tellings => WasSent(record.key)'
    BY <1>1, <2>1 DEF AlertsOK, HandedOK, WasSent
  <2>. QED  BY <1>1, <2>2 DEF AlertsOK, HandedOK
<1>. QED  BY <1>1, <1>6, <1>7, <1>8, ReportStays DEF AlertsOK

LEMMA SaveRecordKeeps ==
  ASSUME AlertsOK, NEW c \in Checks, SaveRecord(c)
  PROVE  AlertsOK'
<1>1. /\ CheckAt(c, "record") /\ UNCHANGED <<report, note, summary, checked, sent>>
      /\ record' = [exists |-> TRUE, outcome |-> check[c].outcome, key |-> check[c].key]
      /\ check' = [check EXCEPT ![c].pc = IF check[c].args.send THEN "done" ELSE "read_record"]
  BY DEF SaveRecord, CheckGoes
<1>2. Steps(c) /\ DOMAIN check'[c] = DOMAIN check[c] /\ check'[c].args = check[c].args
        /\ check'[c].pc \in {"done", "read_record"}
  BY <1>1 DEF AlertsOK, ChecksOK, CheckOK, Steps
<1>3. CheckOK(c)'
  BY <1>2 DEF AlertsOK, ChecksOK, CheckOK, CheckAt
<1>4. ChecksOK'
  BY <1>1, <1>2, <1>3, ChecksGoOn DEF AlertsOK, SentOK
<1>5. SentOK'
  <2>1. c \notin Pending'
    BY <1>2 DEF Pending
  <2>. QED  BY <1>1, <1>2, <2>1, SentGoesOn DEF AlertsOK
<1>6. HandedOK'
  <2>1. check[c].outcome \in Tellings \union {"NO_NOTIFICATION"}
          /\ (check[c].outcome \in Tellings => WasSent(check[c].key))
    BY <1>1 DEF AlertsOK, ChecksOK, CheckOK
  <2>2. record'.outcome = check[c].outcome /\ record'.key = check[c].key
    BY <1>1
  <2>. QED  BY <1>1, <2>1, <2>2 DEF AlertsOK, HandedOK, WasSent
<1>. QED  BY <1>1, <1>4, <1>5, <1>6, ReportStays DEF AlertsOK

LEMMA ReadRecordKeeps ==
  ASSUME AlertsOK, NEW c \in Checks, ReadRecord(c)
  PROVE  AlertsOK'
<1>1. UNCHANGED <<report, note, record, summary, checked, sent>>
  BY DEF ReadRecord
<1>2. Steps(c) /\ DOMAIN check'[c] = DOMAIN check[c] /\ check'[c].args = check[c].args
        /\ check'[c].pc = "sum"
  BY DEF ReadRecord, CheckEnds, AlertsOK, ChecksOK, CheckOK, Steps
<1>3. CheckOK(c)'
  BY <1>2 DEF AlertsOK, ChecksOK, CheckOK, CheckAt
<1>4. c \notin Pending'
  BY <1>2 DEF Pending
<1>. QED  BY <1>1, <1>2, <1>3, <1>4, CheckMoves

LEMMA ChildDiesKeeps ==
  ASSUME AlertsOK, NEW c \in Checks, ChildDies(c)
  PROVE  AlertsOK'
<1>1. UNCHANGED <<report, note, record, summary, checked, sent>>
  BY DEF ChildDies
<1>2. Steps(c) /\ DOMAIN check'[c] = DOMAIN check[c] /\ check'[c].args = check[c].args
        /\ check'[c].pc = "sum"
  BY DEF ChildDies, AlertsOK, ChecksOK, CheckOK, Steps
<1>3. CheckOK(c)'
  BY <1>2 DEF AlertsOK, ChecksOK, CheckOK, CheckAt
<1>4. c \notin Pending'
  BY <1>2 DEF Pending
<1>. QED  BY <1>1, <1>2, <1>3, <1>4, CheckMoves

LEMMA SummariseKeeps ==
  ASSUME AlertsOK, NEW c \in Checks, Summarise(c)
  PROVE  AlertsOK'
<1>1. /\ UNCHANGED <<report, note, record, checked, sent>>
      /\ check' = [check EXCEPT ![c].pc = "done"]
  BY DEF Summarise, CheckGoes
<1>2. Steps(c) /\ DOMAIN check'[c] = DOMAIN check[c] /\ check'[c].args = check[c].args
        /\ check'[c].pc = "done"
  BY <1>1 DEF AlertsOK, ChecksOK, CheckOK, Steps
<1>3. CheckOK(c)'
  BY <1>2 DEF AlertsOK, ChecksOK, CheckOK, CheckAt
<1>4. ChecksOK'
  BY <1>1, <1>2, <1>3, ChecksGoOn DEF AlertsOK, SentOK
<1>5. SentOK'
  <2>1. c \notin Pending'
    BY <1>2 DEF Pending
  <2>. QED  BY <1>1, <1>2, <2>1, SentGoesOn DEF AlertsOK
<1>6. HandedOK'
  <2>1. summary'.of.exists => summary'.health = summary'.of.health
    BY DEF Summarise
  <2>. QED  BY <1>1, <2>1 DEF AlertsOK, HandedOK, WasSent
<1>. QED  BY <1>1, <1>4, <1>5, <1>6, ReportStays DEF AlertsOK

-----------------------------------------------------------------------------
(* The invariant holds                                                     *)

LEMMA InitOK ==
  ASSUME Init
  PROVE  DayOK /\ AlertsOK
<1>1. FilesOK /\ RanOK
  BY OpsAssumption DEF Init, FilesOK, RanOK, SwitchFilesOK, Having
<1>2. SwitchOK
  BY OpsAssumption DEF Init, SwitchOK, SetterOK
<1>3. SentOK
  <2>1. Pending = {}
    BY DEF Init, Pending, NotChecking
  <2>2. IsFiniteSet(Pending) /\ Cardinality(Pending) = 0
    BY <2>1, FS_EmptySet
  <2>3. SentFunction /\ Len(sent) = 0
    BY DEF Init, SentFunction
  <2>. QED  BY <2>2, <2>3, OpsAssumption DEF Init, SentOK
<1>4. ChecksOK
  BY DEF Init, ChecksOK, CheckOK, NotChecking, CheckAt
<1>5. HandedOK /\ FailuresReported
  BY DEF Init, HandedOK, FailuresReported, NoReport, NoNote, NoRecord, NoSummary,
     Tellings, DispatchedOutcomes
<1>. QED  BY <1>1, <1>2, <1>3, <1>4, <1>5 DEF DayOK, AlertsOK

LEMMA NextOK ==
  ASSUME DayOK, AlertsOK, [Next]_vars
  PROVE  DayOK' /\ AlertsOK'
<1>1. CASE ScriptRuns \/ ScriptDiesWriting
  <2>1. UNCHANGED alerts
    BY <1>1 DEF ScriptRuns, ScriptDiesWriting
  <2>. QED  BY <1>1, <2>1, AlertsStay, ScriptRunsKeeps, ScriptDiesWritingKeeps
<1>2. ASSUME NEW t \in Setters,
             SetterStarts(t) \/ SetterCommits(t) \/ SetterWrites(t) \/ SetterLeavesNoFile(t)
      PROVE  DayOK' /\ AlertsOK'
  <2>1. UNCHANGED alerts
    BY <1>2 DEF SetterStarts, SetterCommits, SetterWrites, SetterLeavesNoFile
  <2>. QED  BY <1>2, <2>1, AlertsStay, SetterStartsKeeps, SetterCommitsKeeps,
               SetterWritesKeeps, SetterLeavesNoFileKeeps
<1>3. ASSUME NEW c \in Checks,
             \/ CheckStarts(c) \/ BuildReport(c) \/ ReportFails(c) \/ PrepareNotification(c)
             \/ ReadNotification(c) \/ SendText(c) \/ SaveRecord(c) \/ ReadRecord(c)
             \/ ChildDies(c) \/ Summarise(c)
      PROVE  DayOK' /\ AlertsOK'
  <2>1. UNCHANGED <<scripts, switches>>
    BY <1>3 DEF CheckStarts, BuildReport, ReportFails, PrepareNotification,
       ReadNotification, SendText, SaveRecord, ReadRecord, ChildDies, Summarise
  <2>2. AlertsOK'
    BY <1>3, CheckStartsKeeps, BuildReportKeeps, ReportFailsKeeps,
       PrepareNotificationKeeps, ReadNotificationKeeps, SendTextKeeps, SaveRecordKeeps,
       ReadRecordKeeps, ChildDiesKeeps, SummariseKeeps
  <2>. QED  BY <2>1, <2>2, DayStays
<1>4. CASE UNCHANGED vars
  BY <1>4, AlertsStay, DayStays DEF vars, alerts, scripts, switches
<1>. QED  BY <1>1, <1>2, <1>3, <1>4 DEF Next, Step

LEMMA HistoryGoesOn ==
  ASSUME HistoryOK, [Next]_vars
  PROVE  HistoryOK' /\ (overlapped => overlapped')
<1>1. CASE UNCHANGED vars
  BY <1>1 DEF HistoryOK, Overlap, UnderWay, vars
<1>2. CASE Next
  <2>1. overlapped' = (overlapped \/ Overlap') /\ overlapped \in BOOLEAN
    BY <1>2 DEF Next, HistoryOK
  <2>2. overlapped' \in BOOLEAN /\ (overlapped => overlapped') /\ (Overlap' => overlapped')
    BY <2>1, Zenon DEF Overlap
  <2>. QED  BY <2>2, Zenon DEF HistoryOK
<1>. QED  BY <1>1, <1>2

LEMMA Invariance == Spec => []IInv
<1>1. Init => IInv
  <2>1. ASSUME Init PROVE HistoryOK
    BY <2>1 DEF Init, HistoryOK, Overlap, UnderWay, NotChecking
  <2>. QED  BY <2>1, InitOK DEF IInv
<1>2. IInv /\ [Next]_vars => IInv'
  BY NextOK, HistoryGoesOn DEF IInv
<1>. QED  BY <1>1, <1>2, PTL DEF Spec

LEMMA TypesOfInv == IInv => TypeOK
<1>. SUFFICES ASSUME IInv PROVE TypeOK
  OBVIOUS
<1>1. Len(sent) <= MaxChecks
  <2>1. Cardinality(Pending) \in Nat
    BY FS_CardinalityType DEF IInv, DayOK, AlertsOK, SentOK
  <2>. QED  BY <2>1, OpsAssumption DEF IInv, DayOK, AlertsOK, SentOK, SentFunction
<1>2. record.outcome \in DispatchedOutcomes \union {"none", "DUPLICATE_SKIPPED",
                                                     "NO_NOTIFICATION"}
  BY DEF IInv, DayOK, AlertsOK, HandedOK, Tellings
<1>3. \A c \in Checks : check[c].pc \in
         {"off", "report", "notify", "read_note", "dispatch", "record", "read_record",
          "sum", "done"}
  BY DEF IInv, DayOK, AlertsOK, ChecksOK, CheckOK
<1>. QED  BY <1>1, <1>2, <1>3 DEF IInv, DayOK, AlertsOK, HistoryOK, FilesOK, SwitchOK,
               TypeOK

\* Every variable has its type: the files are such as the scripts leave, whatever
\* scripts there are, and no check sends two texts.
THEOREM TypeCorrect == Spec => []TypeOK
BY Invariance, TypesOfInv, PTL

\* No failure of a script is lost between its exit code and the report: a run that
\* ended with an error and left its file makes the report, the level and the row of
\* the file other than READY, one of an executing script that broke off makes it
\* CRITICAL, and every action of the report leads to a file that is there.  It
\* holds for all files at once and any number of checks and setters beside them.
THEOREM FailuresAreReported == Spec => []FailuresReported
<1>1. IInv => FailuresReported
  BY DEF IInv, AlertsOK
<1>. QED  BY <1>1, Invariance, PTL

-----------------------------------------------------------------------------
(* The kill switch in the report                                           *)

LEMMA FilesKnown ==
  ASSUME SwitchKnown, UNCHANGED switches,
         \A l \in SwitchLabels : (l \in DOMAIN files' <=> l \in DOMAIN files)
                                 /\ (l \in DOMAIN files => files'[l] = files[l])
  PROVE  SwitchKnown'
<1>1. switch' = switch /\ setter' = setter
  BY DEF switches
<1>. QED  BY <1>1 DEF SwitchKnown, RowKnown, Having

LEMMA SetterStartsKnown ==
  ASSUME OneChanger, DayOK, SwitchKnown, NEW t \in Setters, SetterStarts(t)
  PROVE  SwitchKnown'
<1>1. PICK action \in SettersOf[t] :
       /\ setter' = [setter EXCEPT ![t].pc = "commit", ![t].action = action,
                                   ![t].row = [stamp |-> switch.given + 1]]
       /\ switch' = IF action = "status" THEN switch
                    ELSE [switch EXCEPT !.given = @ + 1]
  BY DEF SetterStarts
<1>2. DOMAIN setter = Setters /\ \A u \in Setters : SetterOK(u)
  BY DEF DayOK, SwitchOK
<1>3. setter'[t].pc = "commit" /\ setter'[t].action = action
        /\ setter'[t].row.stamp = switch.given + 1
        /\ \A u \in Setters \ {t} : setter'[u] = setter[u]
  BY <1>1, <1>2 DEF SetterOK
<1>4. switch.given \in Int /\ switch.stamp \in Int /\ switch'.stamp = switch.stamp
        /\ switch'.enabled = switch.enabled
        /\ switch'.given = (IF action = "status" THEN switch.given ELSE switch.given + 1)
  BY <1>1, OpsAssumption DEF DayOK, SwitchOK
<1>5. files' = files
  BY DEF SetterStarts
<1>6. switch'.stamp <= switch'.given
  BY <1>4 DEF SwitchKnown
<1>7. \A row : RowKnown(row) => row.stamp <= switch'.stamp
                 /\ (row.stamp = switch'.stamp => row.enabled = switch'.enabled)
  BY <1>4 DEF RowKnown
<1>8. \A l \in Having(files, SwitchLabels) : RowKnown(files[l])'
  BY <1>5, <1>7 DEF SwitchKnown, RowKnown
<1>9. ASSUME NEW u \in Setters
      PROVE  /\ setter'[u].pc = "file" => RowKnown(setter[u].row)'
             /\ setter'[u].pc = "commit" /\ setter'[u].action # "status" =>
                  setter'[u].row.stamp = switch'.given /\ switch'.stamp < switch'.given
  <2>1. CASE u = t
    BY <1>3, <1>4, <2>1 DEF SwitchKnown
  <2>2. CASE u # t
    <3>1. setter'[u] = setter[u]
      BY <1>3, <2>2
    <3>2. setter[u].pc = "file" => RowKnown(setter[u].row)'
      BY <1>7, <3>1 DEF SwitchKnown, RowKnown
    <3>3. ASSUME setter[u].pc = "commit", setter[u].action # "status"
          PROVE  switch'.given = switch.given
      <4>1. setter[u].action \in SettersOf[u] \ {"status"}
        BY <1>2, <3>3 DEF SetterOK
      <4>2. action = "status"
        BY <2>2, <4>1 DEF OneChanger
      <4>. QED  BY <1>4, <4>2
    <3>. QED  BY <1>4, <3>1, <3>2, <3>3 DEF SwitchKnown
  <2>. QED  BY <2>1, <2>2
<1>. QED  BY <1>5, <1>6, <1>8, <1>9 DEF SwitchKnown

LEMMA SetterCommitsKnown ==
  ASSUME OneChanger, DayOK, SwitchKnown, NEW t \in Setters, SetterCommits(t)
  PROVE  SwitchKnown'
<1>. DEFINE row == IF setter[t].action = "status"
                   THEN [enabled |-> switch.enabled, stamp |-> switch.stamp]
                   ELSE [enabled |-> setter[t].action = "enable",
                         stamp   |-> setter[t].row.stamp]
<1>1. /\ switch' = IF setter[t].action = "status" THEN switch
                   ELSE [switch EXCEPT !.set = TRUE, !.enabled = row.enabled,
                                       !.stamp = row.stamp]
      /\ setter' = [setter EXCEPT ![t].pc = "file", ![t].row = row]
      /\ setter[t].pc = "commit" /\ files' = files
  BY DEF SetterCommits, scripts
<1>2. DOMAIN setter = Setters /\ \A u \in Setters : SetterOK(u)
  BY DEF DayOK, SwitchOK
<1>3. setter'[t].pc = "file" /\ setter'[t].row = row
        /\ \A u \in Setters \ {t} : setter'[u] = setter[u]
  BY <1>1, <1>2 DEF SetterOK
<1>4. switch.given \in Int /\ switch.stamp \in Int
  BY OpsAssumption DEF DayOK, SwitchOK
<1>5. switch'.given = switch.given /\ switch'.stamp = row.stamp
        /\ switch'.enabled = row.enabled /\ row.stamp <= switch.given /\ row.stamp \in Int
        /\ (switch' = switch \/ switch.stamp < row.stamp)
  BY <1>1, <1>4 DEF DayOK, SwitchOK, SwitchKnown
<1>. HIDE DEF row
<1>6. \A k \in Having(files, SwitchLabels) : files[k].stamp \in Int
  BY OpsAssumption DEF DayOK, FilesOK, SwitchFilesOK, SwitchRow
<1>7. ASSUME NEW k \in Having(files, SwitchLabels)
      PROVE  RowKnown(files[k])'
  <2>1. RowKnown(files[k]) /\ files[k].stamp \in Int
    BY <1>6 DEF SwitchKnown
  <2>2. files'[k] = files[k]
    BY <1>1
  <2>. QED  BY <1>4, <1>5, <2>1, <2>2 DEF RowKnown
<1>8. ASSUME NEW u \in Setters
      PROVE  /\ setter'[u].pc = "file" => RowKnown(setter[u].row)'
             /\ setter'[u].pc = "commit" /\ setter'[u].action # "status" =>
                  setter'[u].row.stamp = switch'.given /\ switch'.stamp < switch'.given
  <2>1. CASE u = t
    BY <1>3, <1>5, <2>1 DEF RowKnown
  <2>2. CASE u # t
    <3>1. setter'[u] = setter[u]
      BY <1>3, <2>2
    <3>2. ASSUME setter[u].pc = "file"
          PROVE  RowKnown(setter[u].row)'
      <4>1. setter[u].row.stamp \in Int /\ RowKnown(setter[u].row)
        BY <1>2, <3>2, OpsAssumption DEF SetterOK, SwitchRow, SwitchKnown
      <4>. QED  BY <1>4, <1>5, <3>1, <4>1 DEF RowKnown
    <3>3. ASSUME setter[u].pc = "commit", setter[u].action # "status"
          PROVE  switch' = switch
      <4>1. setter[u].action \in SettersOf[u] \ {"status"}
        BY <1>2, <3>3 DEF SetterOK
      <4>2. setter[t].action = "status"
        BY <1>1, <1>2, <2>2, <4>1 DEF OneChanger, SetterOK
      <4>. QED  BY <1>1, <4>2
    <3>. QED  BY <3>1, <3>2, <3>3 DEF SwitchKnown
  <2>. QED  BY <2>1, <2>2
<1>. QED  BY <1>1, <1>4, <1>5, <1>7, <1>8 DEF SwitchKnown

\* A setter that has nothing in hand any more says nothing of the switch.
LEMMA SetterEndsKnown ==
  ASSUME DayOK, SwitchKnown, NEW t \in Setters, switch' = switch,
         setter' = [setter EXCEPT ![t].pc = "off", ![t].action = "none",
                                  ![t].row = [none |-> TRUE]],
         \A l \in Having(files, SwitchLabels)' : RowKnown(files'[l])
  PROVE  SwitchKnown'
<1>1. DOMAIN setter = Setters /\ DOMAIN setter[t] = {"pc", "action", "row"}
  BY DEF DayOK, SwitchOK, SetterOK
<1>2. setter'[t].pc = "off" /\ \A u \in Setters \ {t} : setter'[u] = setter[u]
  BY <1>1
<1>3. ASSUME NEW u \in Setters
      PROVE  /\ setter'[u].pc = "file" => RowKnown(setter[u].row)'
             /\ setter'[u].pc = "commit" /\ setter'[u].action # "status" =>
                  setter'[u].row.stamp = switch'.given /\ switch'.stamp < switch'.given
  BY <1>2 DEF SwitchKnown, RowKnown
<1>. QED  BY <1>3 DEF SwitchKnown, RowKnown

LEMMA SetterWritesKnown ==
  ASSUME DayOK, SwitchKnown, NEW t \in Setters, SetterWrites(t)
  PROVE  SwitchKnown'
<1>1. RowKnown(setter[t].row)
  BY DEF SetterWrites, SwitchKnown
<1>2. \A l \in Having(files, SwitchLabels)' :
         files'[l] = setter[t].row \/ (l \in Having(files, SwitchLabels) /\ files'[l] = files[l])
  BY DEF SetterWrites, Written, Having
<1>3. \A l \in Having(files, SwitchLabels)' : RowKnown(files'[l])
  BY <1>1, <1>2 DEF SwitchKnown
<1>. QED  BY <1>3, SetterEndsKnown DEF SetterWrites

LEMMA SetterLeavesNoFileKnown ==
  ASSUME DayOK, SwitchKnown, NEW t \in Setters, SetterLeavesNoFile(t)
  PROVE  SwitchKnown'
<1>1. files' = files
  BY DEF SetterLeavesNoFile, scripts
<1>2. \A l \in Having(files, SwitchLabels)' : RowKnown(files'[l])
  BY <1>1 DEF SwitchKnown
<1>. QED  BY <1>2, SetterEndsKnown DEF SetterLeavesNoFile

LEMMA SwitchStep ==
  ASSUME OneChanger, DayOK, SwitchKnown, [Next]_vars
  PROVE  SwitchKnown'
<1>1. ASSUME ScriptRuns
      PROVE  SwitchKnown'
  <2>1. PICK run \in AllEnds :
          files' = IF run[2].left THEN Written(files, run[1], run[2].body) ELSE files
    BY <1>1 DEF ScriptRuns
  <2>2. run[1] \in Labels
    BY <2>1 DEF AllEnds
  <2>3. \A l \in SwitchLabels : (l \in DOMAIN files' <=> l \in DOMAIN files)
                                /\ (l \in DOMAIN files => files'[l] = files[l])
    BY <2>1, <2>2, OwnFiles DEF Written
  <2>. QED  BY <1>1, <2>3, FilesKnown DEF ScriptRuns
<1>2. ASSUME files' = files, UNCHANGED switches
      PROVE  SwitchKnown'
  BY <1>2, FilesKnown
<1>3. ASSUME ScriptDiesWriting PROVE files' = files /\ UNCHANGED switches
  BY <1>3 DEF ScriptDiesWriting
<1>4. ASSUME NEW t \in Setters,
             SetterStarts(t) \/ SetterCommits(t) \/ SetterWrites(t) \/ SetterLeavesNoFile(t)
      PROVE  SwitchKnown'
  BY <1>4, SetterStartsKnown, SetterCommitsKnown, SetterWritesKnown,
     SetterLeavesNoFileKnown
<1>5. ASSUME NEW c \in Checks,
             \/ CheckStarts(c) \/ BuildReport(c) \/ ReportFails(c) \/ PrepareNotification(c)
             \/ ReadNotification(c) \/ SendText(c) \/ SaveRecord(c) \/ ReadRecord(c)
             \/ ChildDies(c) \/ Summarise(c)
      PROVE  files' = files /\ UNCHANGED switches
  BY <1>5 DEF CheckStarts, BuildReport, ReportFails, PrepareNotification,
     ReadNotification, SendText, SaveRecord, ReadRecord, ChildDies, Summarise, scripts
<1>6. ASSUME UNCHANGED vars PROVE files' = files /\ UNCHANGED switches
  BY <1>6 DEF vars, switches
<1>. QED  BY <1>1, <1>2, <1>3, <1>4, <1>5, <1>6 DEF Next, Step

\* The latest file is one that tells of the row of the database, if one does.
LEMMA ShownAsKnown ==
  ASSUME DayOK, SwitchKnown
  PROVE  KillSwitchShown
<1>1. SUFFICES ASSUME NEW l \in Having(files, SwitchLabels),
                      files[l].stamp = switch.stamp
               PROVE  SwitchShown(files) = switch.enabled
  BY DEF KillSwitchShown
<1>. DEFINE last == LatestSwitch(files)
<1>2. last \in Having(files, SwitchLabels)
        /\ \A k \in Having(files, SwitchLabels) \ {last} : Later(files, k, last)
  BY LatestExists DEF DayOK, FilesOK
<1>. HIDE DEF last
<1>3. l = last \/ files[l].stamp <= files[last].stamp
  <2>1. files[l].stamp \in Int /\ files[last].stamp \in Int
    BY <1>2, OpsAssumption DEF DayOK, FilesOK, SwitchFilesOK, SwitchRow
  <2>. QED  BY <1>2, <2>1 DEF Later
<1>4. files[last].stamp = switch.stamp /\ files[last].enabled = switch.enabled
  <2>1. files[last] \in SwitchRow /\ switch.stamp \in Int
    BY <1>2, OpsAssumption DEF DayOK, FilesOK, SwitchFilesOK, SwitchOK
  <2>2. RowKnown(files[last])
    BY <1>2 DEF SwitchKnown
  <2>. QED  BY <1>1, <1>3, <2>1, <2>2, OpsAssumption DEF RowKnown, SwitchRow
<1>5. switch.enabled \in BOOLEAN
  BY DEF DayOK, SwitchOK
<1>. QED  BY <1>2, <1>4, <1>5 DEF SwitchShown, last

\* If one process changes the switch, the report shows it as it is in the database
\* as soon as a file tells of it: whatever other processes read it in between and
\* save what they read late, and whichever of them dies before it saves it.
THEOREM SwitchIsShown ==
  ASSUME OneChanger
  PROVE  Spec => []KillSwitchShown
<1>1. Init => SwitchKnown
  BY OpsAssumption DEF Init, SwitchKnown, Having
<1>2. IInv /\ SwitchKnown /\ [Next]_vars => SwitchKnown'
  BY SwitchStep DEF IInv
<1>3. IInv /\ SwitchKnown => KillSwitchShown
  BY ShownAsKnown DEF IInv
<1>. QED  BY <1>1, <1>2, <1>3, Invariance, PTL DEF Spec

-----------------------------------------------------------------------------
(* What a check says it did                                                *)

LEMMA EligibleOrMilder ==
  ASSUME NEW health \in Levels, NEW level \in Levels, health \notin Eligible(level)
  PROVE  Milder(health, level)
<1>. DEFINE rank == [h \in {"READY", "WARNING", "CRITICAL", "NO_ARTIFACTS"} |->
                       CASE h = "READY" -> 0 [] h = "WARNING" -> 1 [] h = "CRITICAL" -> 2
                         [] h = "NO_ARTIFACTS" -> 3]
<1>1. rank["READY"] = 0 /\ rank["WARNING"] = 1 /\ rank["CRITICAL"] = 2
        /\ rank["NO_ARTIFACTS"] = 3
  OBVIOUS
<1>2. Milder(health, level) <=> rank[health] < rank[level]
  BY DEF Milder
<1>. HIDE DEF rank
<1>. QED  BY <1>1, <1>2 DEF Levels, Eligible

LEMMA TruthStays ==
  ASSUME NEW c \in Checks, TruthKnown(c), AlertsOK,
         UNCHANGED <<note, record, sent>>, check'[c] = check[c]
  PROVE  TruthKnown(c)'
BY DEF TruthKnown, CheckAt, WasSent

LEMMA TruthOfStart ==
  ASSUME AlertsOK, NEW c \in Checks, CheckStarts(c)
  PROVE  TruthKnown(c)'
<1>1. PICK args \in Commands :
        check' = [check EXCEPT ![c] = [NotChecking EXCEPT !.args = args,
                        !.pc = IF args.send THEN "dispatch" ELSE "report"]]
  BY DEF CheckStarts
<1>2. check'[c].args = args /\ (~args.send => check'[c].pc = "report")
  BY <1>1 DEF AlertsOK, ChecksOK, NotChecking
<1>. QED  BY <1>2 DEF TruthKnown, CheckAt

LEMMA TruthOfReport ==
  ASSUME AlertsOK, NEW c \in Checks, BuildReport(c) \/ ReportFails(c)
  PROVE  TruthKnown(c)'
<1>1. \/ check' = [check EXCEPT ![c].pc = "notify"]
      \/ check' = [check EXCEPT ![c].pc = "sum", ![c].outcome = "REPORT_FAILED"]
  BY DEF BuildReport, ReportFails, CheckGoes, CheckEnds
<1>2. check'[c].pc = "notify"
        \/ (check'[c].pc = "sum" /\ check'[c].outcome = "REPORT_FAILED")
  BY <1>1 DEF AlertsOK, ChecksOK, CheckOK
<1>. QED  BY <1>2 DEF TruthKnown, CheckAt

LEMMA TruthOfNote ==
  ASSUME AlertsOK, NEW c \in Checks, PrepareNotification(c)
  PROVE  TruthKnown(c)'
<1>1. check'[c].pc = "read_note" /\ check'[c].args = check[c].args
  BY DEF PrepareNotification, CheckGoes, AlertsOK, ChecksOK, CheckOK
<1>2. note' = Notification(report, check[c].args.level)
  BY DEF PrepareNotification
<1>3. note'.should = (note'.health \in Eligible(check'[c].args.level))
  BY <1>1, <1>2 DEF Notification
<1>. QED  BY <1>1, <1>3 DEF TruthKnown, CheckAt

LEMMA TruthOfReading ==
  ASSUME AlertsOK, NEW c \in Checks, TruthKnown(c), ReadNotification(c)
  PROVE  TruthKnown(c)'
<1>1. SUFFICES ASSUME ~check'[c].args.send
               PROVE  TruthKnown(c)'
  BY DEF TruthKnown
<1>2. CheckAt(c, "read_note") /\ note' = note
  BY DEF ReadNotification
<1>3. /\ check'[c].args = check[c].args /\ check'[c].note = note
      /\ check'[c].pc = IF note.should /\ check[c].args.dispatch THEN "dispatch" ELSE "sum"
      /\ note.should /\ ~check[c].args.dispatch =>
           check'[c].outcome = "NOTIFICATION_REQUIRED"
  BY DEF ReadNotification, AlertsOK, ChecksOK, CheckOK
<1>4. note.should = (note.health \in Eligible(check[c].args.level))
  BY <1>1, <1>2, <1>3 DEF TruthKnown
<1>5. note.health \in Levels /\ check[c].args.level \in Levels
  BY <1>2, OpsAssumption DEF AlertsOK, ChecksOK, CheckOK, HandedOK, NoCommand, Levels
<1>6. ~note.should => Milder(note.health, check[c].args.level)
  BY <1>4, <1>5, EligibleOrMilder
<1>7. ~note.should => check'[c].outcome = "READY"
  BY DEF ReadNotification, AlertsOK, ChecksOK, CheckOK
<1>8. CASE check'[c].pc = "dispatch"
  BY <1>2, <1>3, <1>8 DEF TruthKnown, CheckAt
<1>9. CASE check'[c].pc = "sum"
  BY <1>3, <1>6, <1>7, <1>9 DEF TruthKnown, CheckAt
<1>. QED  BY <1>3, <1>8, <1>9

LEMMA TruthOfSending ==
  ASSUME AlertsOK, NEW c \in Checks, TruthKnown(c), SendText(c)
  PROVE  TruthKnown(c)'
<1>1. /\ CheckAt(c, "dispatch") /\ note' = note
      /\ check'[c].pc = "record" /\ check'[c].args = check[c].args
      /\ check'[c].note = check[c].note /\ check'[c].key = DispatchKey(note)
      /\ check'[c].outcome = DispatchOutcome(record, note, check[c].args.force)
  BY DEF SendText, AlertsOK, ChecksOK, CheckOK
<1>2. ~check[c].args.send => check[c].note = note /\ check'[c].outcome \in Tellings
  BY <1>1, Outcomes DEF TruthKnown
<1>. QED  BY <1>1, <1>2 DEF TruthKnown, CheckAt

LEMMA TruthOfRecord ==
  ASSUME AlertsOK, NEW c \in Checks, TruthKnown(c), SaveRecord(c)
  PROVE  TruthKnown(c)'
<1>1. /\ CheckAt(c, "record")
      /\ check'[c].pc = (IF check[c].args.send THEN "done" ELSE "read_record")
      /\ check'[c].args = check[c].args /\ check'[c].note = check[c].note
      /\ record'.outcome = check[c].outcome /\ record'.key = check[c].key
  BY DEF SaveRecord, CheckGoes, AlertsOK, ChecksOK, CheckOK
<1>. QED  BY <1>1 DEF TruthKnown, CheckAt

LEMMA TruthOfAnswer ==
  ASSUME AlertsOK, NEW c \in Checks, TruthKnown(c), ReadRecord(c)
  PROVE  TruthKnown(c)'
<1>1. /\ CheckAt(c, "read_record") /\ sent' = sent
      /\ check'[c].pc = "sum" /\ check'[c].outcome = CheckOutcome(record.outcome)
      /\ check'[c].args = check[c].args /\ check'[c].note = check[c].note
  BY DEF ReadRecord, CheckEnds, AlertsOK, ChecksOK, CheckOK
<1>2. ~check[c].args.send =>
         record.key = DispatchKey(check[c].note) /\ record.outcome \in Tellings
  BY <1>1 DEF TruthKnown
<1>3. record.outcome \in Tellings =>
         WasSent(record.key) /\ CheckOutcome(record.outcome) # "READY"
  BY DEF AlertsOK, HandedOK, CheckOutcome, Tellings
<1>. QED  BY <1>1, <1>2, <1>3 DEF TruthKnown, CheckAt, WasSent

LEMMA TruthOfDeath ==
  ASSUME AlertsOK, NEW c \in Checks, ChildDies(c)
  PROVE  TruthKnown(c)'
<1>1. check'[c].pc = "sum"
        /\ check'[c].outcome \in {"REPORT_FAILED", "NOTIFICATION_FAILED", "DISPATCH_FAILED"}
  BY DEF ChildDies, AlertsOK, ChecksOK, CheckOK
<1>. QED  BY <1>1 DEF TruthKnown, CheckAt

LEMMA TruthOfSummary ==
  ASSUME AlertsOK, NEW c \in Checks, TruthKnown(c), Summarise(c)
  PROVE  TruthKnown(c)'
<1>1. /\ CheckAt(c, "sum") /\ sent' = sent
      /\ check'[c].pc = "done" /\ check'[c].outcome = check[c].outcome
      /\ check'[c].args = check[c].args /\ check'[c].note = check[c].note
  BY DEF Summarise, CheckGoes, AlertsOK, ChecksOK, CheckOK
<1>. QED  BY <1>1 DEF TruthKnown, CheckAt, WasSent

\* A step of a check changes that check only, and sends one text at most.
LEMMA CheckSteps ==
  ASSUME AlertsOK, NEW d \in Checks,
         \/ CheckStarts(d) \/ BuildReport(d) \/ ReportFails(d) \/ PrepareNotification(d)
         \/ ReadNotification(d) \/ SendText(d) \/ SaveRecord(d) \/ ReadRecord(d)
         \/ ChildDies(d) \/ Summarise(d)
  PROVE  /\ \A c \in Checks \ {d} : check'[c] = check[c]
         /\ sent' = sent \/ \E x : sent' = Append(sent, x)
<1>1. DOMAIN check = Checks
  BY DEF AlertsOK, ChecksOK
<1>2. CASE SendText(d)
  BY <1>1, <1>2 DEF SendText
<1>3. CASE CheckStarts(d)
  BY <1>1, <1>3 DEF CheckStarts
<1>4. CASE BuildReport(d) \/ ReportFails(d) \/ PrepareNotification(d)
  BY <1>1, <1>4 DEF BuildReport, ReportFails, PrepareNotification, CheckGoes, CheckEnds
<1>5. CASE ReadNotification(d) \/ SaveRecord(d) \/ ReadRecord(d) \/ ChildDies(d)
           \/ Summarise(d)
  BY <1>1, <1>5 DEF ReadNotification, SaveRecord, ReadRecord, ChildDies, Summarise,
     CheckGoes, CheckEnds
<1>. QED  BY <1>2, <1>3, <1>4, <1>5

\* A check takes its steps while it is under way, except the first.
LEMMA StepsUnderWay ==
  ASSUME NEW d \in Checks, ~UnderWay(d),
         \/ CheckStarts(d) \/ BuildReport(d) \/ ReportFails(d) \/ PrepareNotification(d)
         \/ ReadNotification(d) \/ SendText(d) \/ SaveRecord(d) \/ ReadRecord(d)
         \/ ChildDies(d) \/ Summarise(d)
  PROVE  CheckStarts(d)
BY DEF UnderWay, BuildReport, ReportFails, PrepareNotification, ReadNotification, SendText,
   SaveRecord, ReadRecord, ChildDies, Summarise, CheckAt

\* What a check that is not under way says of itself rests on what was sent only.
LEMMA IdleTruthStays ==
  ASSUME AlertsOK, NEW c \in Checks, TruthKnown(c), ~UnderWay(c), check'[c] = check[c],
         sent' = sent \/ \E x : sent' = Append(sent, x)
  PROVE  TruthKnown(c)'
<1>1. \A key : WasSent(key) => WasSent(key)'
  BY StaysSent DEF AlertsOK, SentOK
<1>. QED  BY <1>1 DEF TruthKnown, CheckAt, UnderWay

LEMMA TruthStep ==
  ASSUME AlertsOK, HistoryOK, ~overlapped', NEW c \in Checks, TruthKnown(c), [Next]_vars
  PROVE  TruthKnown(c)'
<1>1. ASSUME UNCHANGED alerts
      PROVE  TruthKnown(c)'
  BY <1>1, TruthStays DEF alerts
<1>2. ASSUME \/ ScriptRuns \/ ScriptDiesWriting \/ UNCHANGED vars
             \/ \E t \in Setters : SetterStarts(t) \/ SetterCommits(t) \/ SetterWrites(t)
                                   \/ SetterLeavesNoFile(t)
      PROVE  UNCHANGED alerts
  BY <1>2 DEF ScriptRuns, ScriptDiesWriting, SetterStarts, SetterCommits,
     SetterWrites, SetterLeavesNoFile, vars, alerts
<1>3. ASSUME NEW d \in Checks,
             \/ CheckStarts(d) \/ BuildReport(d) \/ ReportFails(d) \/ PrepareNotification(d)
             \/ ReadNotification(d) \/ SendText(d) \/ SaveRecord(d) \/ ReadRecord(d)
             \/ ChildDies(d) \/ Summarise(d)
      PROVE  TruthKnown(c)'
  <2>1. CASE d = c
    BY <1>3, <2>1, TruthOfStart, TruthOfReport, TruthOfNote, TruthOfReading,
       TruthOfSending, TruthOfRecord, TruthOfAnswer, TruthOfDeath, TruthOfSummary
  <2>2. CASE d # c
    <3>1. check'[c] = check[c] /\ (sent' = sent \/ \E x : sent' = Append(sent, x))
      BY <1>3, <2>2, CheckSteps
    <3>2. ~overlapped
      BY HistoryGoesOn
    <3>3. CASE UnderWay(d)
      <4>1. ~UnderWay(c)
        BY <2>2, <3>2, <3>3 DEF HistoryOK, Overlap
      <4>. QED  BY <3>1, <4>1, IdleTruthStays
    <3>4. CASE ~UnderWay(d)
      <4>1. CheckStarts(d)
        BY <1>3, <3>4, StepsUnderWay
      <4>2. UNCHANGED <<note, record, sent>>
        BY <4>1 DEF CheckStarts
      <4>. QED  BY <3>1, <4>2, TruthStays
    <3>. QED  BY <3>3, <3>4
  <2>. QED  BY <2>1, <2>2
<1>. QED  BY <1>1, <1>2, <1>3 DEF Next, Step

AllTruthKnown == \A c \in Checks : TruthKnown(c)

\* The record of the last dispatch never tells of an alert that was not sent: for
\* any number of checks and senders that overwrite it, and whichever of them dies.
RecordTellsTruth == record.outcome \in Tellings => WasSent(record.key)

THEOREM RecordIsTruthful == Spec => []RecordTellsTruth
<1>1. IInv => RecordTellsTruth
  BY DEF IInv, AlertsOK, HandedOK, RecordTellsTruth
<1>. QED  BY <1>1, Invariance, PTL

\* The record of the last dispatch tells of nothing that was not sent.  And as long as
\* no two checks have overlapped, one that ends well had nothing to tell at its level
\* or knows that the very alert went out: through senders started by hand, children
\* that die, and reports of earlier checks used again.  It holds for any number of
\* checks and senders, none of them kept from the others.
THEOREM ChecksAreTruthful == Spec => []ChecksTellTruth
<1>. DEFINE Known == ~overlapped => AllTruthKnown
<1>1. Init => Known
  BY DEF Init, AllTruthKnown, TruthKnown, NotChecking, CheckAt
<1>2. IInv /\ Known /\ [Next]_vars => Known'
  <2>1. SUFFICES ASSUME IInv, Known, [Next]_vars, ~overlapped'
                 PROVE  AllTruthKnown'
    OBVIOUS
  <2>2. AllTruthKnown
    BY <2>1, HistoryGoesOn DEF IInv
  <2>. QED  BY <2>1, <2>2, TruthStep DEF IInv, AllTruthKnown
<1>3. IInv /\ Known => ChecksTellTruth
  BY DEF IInv, AlertsOK, HandedOK, AllTruthKnown, TruthKnown, ChecksTellTruth, CheckAt,
     Tellings
<1>. QED  BY <1>1, <1>2, <1>3, Invariance, PTL DEF Spec

\* The headline of the dashboard and its overview name the same level while the last
\* check is about the report that is there, whatever other checks do beside it.
THEOREM DashboardStaysAgreed == Spec => []DashboardAgrees
<1>1. IInv => DashboardAgrees
  <2>1. SUFFICES ASSUME IInv, summary.exists, report.exists, summary.of.exists,
                        summary.of.health = report.health, report.health # "NO_ARTIFACTS"
                 PROVE  Headline(report, summary) = Overview(report)
    BY DEF DashboardAgrees
  <2>2. summary.health = report.health /\ report.health \in {"READY", "WARNING", "CRITICAL"}
    BY <2>1 DEF IInv, AlertsOK, HandedOK, Levels
  <2>. QED  BY <2>1, <2>2 DEF Headline, Overview, StatusLevel
<1>. QED  BY <1>1, Invariance, PTL
=============================================================================
