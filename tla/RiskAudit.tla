------------------------------ MODULE RiskAudit -------------------------------
(***************************************************************************)
(* The risk audit of one aid request: the features a scan reads, the       *)
(* rules, the language model whose answer is merged with the rules, and    *)
(* the service that saves the assessment, caches score and level on the    *)
(* aid request, where the disbursement gate reads the level, and opens     *)
(* scam flags.                                                             *)
(*                                                                         *)
(* Scans run in the background of the request's creation and approval, or  *)
(* because staff asked; each has its own session and waits for the model   *)
(* while proofs come and go, flags are decided and other scans save.       *)
(*                                                                         *)
(* Left out: the snapshots of the spending, which nothing reads back; the  *)
(* rules for an unverified beneficiary, for whom no request can be made;   *)
(* and the beneficiary's total_received, which acts on the hash as a proof *)
(* does.                                                                   *)
(***************************************************************************)
EXTENDS Integers, FiniteSets, Sequences, SequencesExt, FiniteSetsExt

CONSTANTS
    Proofs,       \* files that may be uploaded
    Claimed,      \* per proof: claimed_amount
    Requested,    \* requested_amount
    Purposes,     \* how the purpose reads: "clear", "vague", "short"
    OtherFlags,   \* flags only the model knows
    Answers,      \* what the model may say: score, level and flags
    NaN,          \* float's "not a number"
    NoAnswer,     \* it cannot be reached, or what it says is malformed
    MaxDecided,   \* bound: rows of a flag that are decided at the same time
    Scans,        \* bound: the scans of the request, each done once
    Nothing       \* nothing cached yet, no scan

VARIABLES
    status,    \* of the aid request
    purpose,
    live,      \* its proofs that are not deleted
    old,       \* it was created more than 72 hours ago
    crowded,   \* more than 3 requests of the beneficiary in 24 hours
    cached,    \* its cached_risk_score and cached_risk_level
    open,      \* per flag: its open rows in scam_flags
    decided,   \* per flag: its other rows
    assessed,  \* the inputs that have an assessment
    scan       \* what each scan is doing

facts     == <<status, purpose, live, old, crowded>>
flagRows  == <<open, decided>>
auditVars == <<facts, cached, flagRows, assessed, scan>>

-----------------------------------------------------------------------------
(* Severities and levels are numbers, so that they compare.                *)

Low      == 1
Medium   == 2
High     == 3
Critical == 4

Flag(type, severity) == [type |-> type, severity |-> severity]

ScoreToLevel(score) ==
    IF score >= 80 THEN Critical
    ELSE IF score >= 60 THEN High
    ELSE IF score >= 35 THEN Medium ELSE Low

-----------------------------------------------------------------------------
(* The rules: what each one finds, and for how many points.                *)

Hit(type, severity, points) == [flag |-> Flag(type, severity), points |-> points]

VaguePurpose(f) ==
    CASE f.purpose = "short" -> {Hit("vague_purpose", Medium, 25)}
      [] f.purpose = "vague" -> {Hit("vague_purpose", Low, 15)}
      [] OTHER -> {}

ClaimedTotal(f) == SumFunctionOnSet(Claimed, f.proofs)

Variance(f) ==
    LET claimed == ClaimedTotal(f)
        off     == IF claimed > Requested THEN claimed - Requested ELSE Requested - claimed
        MoreThan(pct) == claimed > 0 /\ off * 100 > pct * Requested
    IN IF MoreThan(50) THEN {Hit("spending_variance", High, 25)}
       ELSE IF MoreThan(25) THEN {Hit("spending_variance", Medium, 12)} ELSE {}

Velocity(f) == IF f.crowded THEN {Hit("request_velocity", High, 20)} ELSE {}

MissingReceipts(f) ==
    IF f.old /\ f.proofs = {} THEN {Hit("missing_receipts", Medium, 20)} ELSE {}

PriorFlags(f) ==
    IF f.flagsOpen > 0 THEN {Hit("prior_open_flags", Medium, 15)} ELSE {}

Hits(f) == VaguePurpose(f) \cup Variance(f) \cup Velocity(f)
               \cup MissingReceipts(f) \cup PriorFlags(f)

RuleFlags(f) == {h.flag : h \in Hits(f)}

Points(hits) == SumFunctionOnSet([h \in hits |-> h.points], hits)
RuleScore(f) == Min({100, Points(Hits(f))})

\* The baseline: what they come to.  The order of the flags means nothing.
Rules(f) == [score |-> RuleScore(f), level |-> ScoreToLevel(RuleScore(f)),
             flags |-> SetToSeq(RuleFlags(f))]

-----------------------------------------------------------------------------
(* The model, with the rules as a lower bound.                             *)

\* The rules' flags of types that the model does not name.
Unnamed(f, flags) ==
    SetToSeq({r \in RuleFlags(f) : \A i \in DOMAIN flags : flags[i].type # r.type})

\* max(), score_to_level and the service's bounds, for a score that need not be
\* a number: it is not less than anything, nor more.
LowerBound(score, rules) == IF score = NaN THEN NaN ELSE Max({score, rules})
DerivedLevel(score)      == IF score = NaN THEN Low ELSE ScoreToLevel(score)
Bounded(score)           == IF score = NaN THEN 100 ELSE Min({100, score})

Merged(f, answer) ==
    IF answer = NoAnswer THEN Rules(f)
    ELSE LET score == LowerBound(answer.score, RuleScore(f))
         IN [score |-> Bounded(score),
             level |-> Max({answer.level, DerivedLevel(score)}),
             flags |-> answer.flags \o Unnamed(f, answer.flags)]

-----------------------------------------------------------------------------

FlagKinds ==
    OtherFlags \cup [type : {"vague_purpose", "missing_receipts", "prior_open_flags",
                             "spending_variance", "request_velocity"},
                     severity : Low .. Critical]

\* What the model says may have any score, one that is no number included, as
\* "NaN" is read.  A severity or a level that is no such thing counts for as
\* little as the lowest.
ASSUME RiskAssumption ==
    /\ Claimed \in [Proofs -> Nat]
    /\ Requested \in Nat \ {0}
    /\ IsFiniteSet(OtherFlags)
    /\ \A f \in OtherFlags : f.severity \in Low .. Critical
    /\ \A a \in Answers : /\ a.score \in Int \cup {NaN}
                          /\ a.level \in Low .. Critical
                          /\ a.flags \in Seq(FlagKinds)
    /\ NaN \notin Int
    /\ Nothing \notin Scans

Features    == [purpose : Purposes, proofs : SUBSET Proofs, old : BOOLEAN,
                crowded : BOOLEAN, flagsOpen : Nat]
Assessments == [score : 0 .. 100, level : Low .. Critical, flags : Seq(FlagKinds)]
CachedRisks == [score : (0 .. 100) \cup {Nothing}, level : (Low .. Critical) \cup {Nothing}]

\* What a scan holds from one await to the next.
Progress ==
    [step : {"begun"}, force : BOOLEAN] \cup
    [step : {"built", "asked"}, force : BOOLEAN, read : Features] \cup
    [step : {"loaded"}, force : BOOLEAN, read : Features, result : Assessments,
     loaded : CachedRisks, alone : BOOLEAN] \cup
    [step : {"checked"}, force : BOOLEAN, read : Features, result : Assessments,
     loaded : CachedRisks, alone : BOOLEAN, existing : SUBSET FlagKinds] \cup
    [step : {"finished"}]

ASSUME ProgressAssumption == Nothing \notin Progress

AuditInit ==
    /\ status = "new"
    /\ purpose \in Purposes
    /\ live = {}
    /\ old = FALSE
    /\ crowded \in BOOLEAN
    /\ cached = [score |-> Nothing, level |-> Nothing]
    /\ open = [f \in FlagKinds |-> 0]
    /\ decided = [f \in FlagKinds |-> 0]
    /\ assessed = {}
    /\ scan = [s \in Scans |-> Nothing]

Reached(s, step) == scan[s] # Nothing /\ scan[s].step = step

Begin(s, force) ==
    /\ scan[s] = Nothing
    /\ scan' = [scan EXCEPT ![s] = [step |-> "begun", force |-> force]]
    /\ UNCHANGED <<cached, flagRows, assessed>>

CreateAidRequest(s) ==
    /\ status = "new"
    /\ status' = "pending"
    /\ Begin(s, FALSE)
    /\ UNCHANGED <<purpose, live, old, crowded>>

ApproveRequest(s) ==
    /\ status = "pending"
    /\ status' = "approved"
    /\ Begin(s, FALSE)
    /\ UNCHANGED <<purpose, live, old, crowded>>

ScanRisk(s) ==
    /\ status # "new"
    /\ Begin(s, TRUE)
    /\ UNCHANGED facts

-----------------------------------------------------------------------------
(* What happens meanwhile.                                                 *)

UploadProof(p) ==
    /\ status # "new"
    /\ p \notin live
    /\ live' = live \cup {p}
    /\ UNCHANGED <<status, purpose, old, crowded, cached, flagRows, assessed, scan>>

DeleteProof(p) ==
    /\ p \in live
    /\ live' = live \ {p}
    /\ UNCHANGED <<status, purpose, old, crowded, cached, flagRows, assessed, scan>>

\* A day later the request itself and those beside it count no more.
ThreeDaysPass ==
    /\ status # "new"
    /\ ~old
    /\ old' = TRUE
    /\ crowded' = FALSE
    /\ UNCHANGED <<status, purpose, live, cached, flagRows, assessed, scan>>

OthersAsk ==
    /\ ~crowded
    /\ crowded' = TRUE
    /\ UNCHANGED <<status, purpose, live, old, cached, flagRows, assessed, scan>>

\* What the others read may no longer be so.
Disturb(s) == [t \in Scans |-> IF t # s /\ (Reached(t, "loaded") \/ Reached(t, "checked"))
                               THEN [scan[t] EXCEPT !.alone = FALSE] ELSE scan[t]]

\* An admin dismisses, escalates or confirms a flag, or opens it again.
UpdateFlag(f) ==
    /\ \/ /\ open[f] > 0 /\ decided[f] < MaxDecided
          /\ open' = [open EXCEPT ![f] = @ - 1]
          /\ decided' = [decided EXCEPT ![f] = @ + 1]
       \/ /\ decided[f] > 0
          /\ open' = [open EXCEPT ![f] = @ + 1]
          /\ decided' = [decided EXCEPT ![f] = @ - 1]
    /\ scan' = Disturb(Nothing)
    /\ UNCHANGED <<facts, cached, assessed>>

-----------------------------------------------------------------------------
(* One scan.                                                               *)

OpenCount == SumFunctionOnSet(open, FlagKinds)

\* Several queries; no two of them are compared.
BuildFeatures(s) ==
    /\ Reached(s, "begun")
    /\ scan' = [scan EXCEPT ![s] =
           [step |-> "built", force |-> @.force,
            read |-> [purpose |-> purpose, proofs |-> live, old |-> old,
                      crowded |-> crowded, flagsOpen |-> OpenCount]]]
    /\ UNCHANGED <<facts, cached, flagRows, assessed>>

\* stable_hash: neither the age nor the other requests are in it.
InputsHash(f) == [purpose |-> f.purpose, proofs |-> f.proofs, flagsOpen |-> f.flagsOpen]

Finished(s) == [scan EXCEPT ![s] = [step |-> "finished"]]

Reuse(s) ==
    /\ Reached(s, "built")
    /\ ~scan[s].force
    /\ InputsHash(scan[s].read) \in assessed
    /\ scan' = Finished(s)
    /\ UNCHANGED <<facts, cached, flagRows, assessed>>

AskModel(s) ==
    /\ Reached(s, "built")
    /\ scan[s].force \/ InputsHash(scan[s].read) \notin assessed
    /\ scan' = [scan EXCEPT ![s].step = "asked"]
    /\ UNCHANGED <<facts, cached, flagRows, assessed>>

\* With the answer, the assessment is added and the request is loaded.
TakeAnswer(s, answer) ==
    /\ Reached(s, "asked")
    /\ scan' = [scan EXCEPT ![s] =
           [step |-> "loaded", force |-> @.force, read |-> @.read,
            result |-> Merged(@.read, answer), loaded |-> cached, alone |-> TRUE]]
    /\ UNCHANGED <<facts, cached, flagRows, assessed>>

Updates(k) == {c \in {"score", "level"} : k.result[c] # k.loaded[c]}

\* The query of the open flags flushes first: the row is updated, if it
\* changes, and locked until this scan commits.
RowIsFree(s) ==
    \A t \in Scans \ {s} : Reached(t, "checked") => Updates(scan[t]) = {}

ReadOpenFlags(s) ==
    /\ Reached(s, "loaded")
    /\ Updates(scan[s]) # {} => RowIsFree(s)
    /\ scan' = [scan EXCEPT ![s] =
           [step |-> "checked", force |-> @.force, read |-> @.read,
            result |-> @.result, loaded |-> @.loaded, alone |-> @.alone,
            existing |-> {f \in FlagKinds : open[f] > 0}]]
    /\ UNCHANGED <<facts, cached, flagRows, assessed>>

\* By its type alone: no action uses this.
KnownType(k, f) == \E g \in k.existing : g.type = f.type

Known(k, f) == f \in k.existing

Raised(k, f) ==
    IF f.severity < Medium \/ Known(k, f) THEN 0
    ELSE Cardinality({i \in DOMAIN k.result.flags : k.result.flags[i] = f})

Save(s) ==
    /\ Reached(s, "checked")
    /\ assessed' = assessed \cup {InputsHash(scan[s].read)}
    /\ cached' = [c \in DOMAIN cached |->
                     IF c \in Updates(scan[s]) THEN scan[s].result[c] ELSE cached[c]]
    /\ open' = [f \in FlagKinds |-> open[f] + Raised(scan[s], f)]
    /\ scan' = [Disturb(s) EXCEPT ![s] = [step |-> "finished"]]
    /\ UNCHANGED <<facts, decided>>

\* The process or the database fails: a background scan is logged, a caller
\* gets an error; nothing is saved and nothing tried again.
ScanFails(s) ==
    /\ scan[s] # Nothing
    /\ scan[s].step # "finished"
    /\ scan' = Finished(s)
    /\ UNCHANGED <<facts, cached, flagRows, assessed>>

-----------------------------------------------------------------------------

AuditNext ==
    \/ \E s \in Scans :
          \/ CreateAidRequest(s) \/ ApproveRequest(s) \/ ScanRisk(s)
          \/ BuildFeatures(s) \/ Reuse(s) \/ AskModel(s)
          \/ \E answer \in Answers \cup {NoAnswer} : TakeAnswer(s, answer)
          \/ ReadOpenFlags(s) \/ Save(s) \/ ScanFails(s)
    \/ \E p \in Proofs : UploadProof(p) \/ DeleteProof(p)
    \/ ThreeDaysPass \/ OthersAsk
    \/ \E f \in FlagKinds : UpdateFlag(f)

AuditSpec == AuditInit /\ [][AuditNext]_auditVars

-----------------------------------------------------------------------------
(* Properties. *)

\* Every part of the state has its declared shape: scores stay within 0 and 100
\* whatever the model says, and no flag has fewer rows than none.
AuditTypeOK ==
    /\ status \in {"new", "pending", "approved"}
    /\ purpose \in Purposes
    /\ live \subseteq Proofs
    /\ old \in BOOLEAN
    /\ crowded \in BOOLEAN
    /\ cached \in CachedRisks
    /\ open \in [FlagKinds -> Nat]
    /\ decided \in [FlagKinds -> Nat]
    /\ assessed \subseteq [purpose : Purposes, proofs : SUBSET Proofs, flagsOpen : Nat]
    /\ scan \in [Scans -> Progress \cup {Nothing}]

Found(k) == {f \in FlagKinds : /\ f.severity >= Medium
                               /\ \E i \in DOMAIN k.result.flags : k.result.flags[i] = f}

\* A scan that nobody disturbed between loading the request and saving leaves
\* its score and level on the request, the score no lower than what the rules
\* found comes to, nor the level unless the score is 100 (which is what a score
\* that is not a number becomes).  Each flag it found, from medium upwards, is
\* open, and one that was open has no more rows than before: whatever the model
\* said, whatever earlier scans left behind, and whatever proofs, flags and
\* time did while the model was asked.
LoneScanIsComplete ==
    [][\A s \in Scans : Save(s) /\ scan[s].alone =>
          /\ cached' = [score |-> scan[s].result.score, level |-> scan[s].result.level]
          /\ cached'.score >= Rules(scan[s].read).score
          /\ cached'.score < 100 => cached'.level >= Rules(scan[s].read).level
          /\ \A f \in Found(scan[s]) :
                /\ open'[f] > 0
                /\ open[f] > 0 => open'[f] = open[f]]_auditVars

-----------------------------------------------------------------------------
(* What does not hold. *)

\* "a lower-bound during LLM scoring so heuristics can't be silenced by a bad
\* model response" (rules.py): the level of an undisturbed scan, which the
\* disbursement gate asks for, is no lower than the rules' alone.
RulesAreLowerBound ==
    [][\A s \in Scans : Save(s) /\ scan[s].alone =>
          cached'.level >= Rules(scan[s].read).level]_auditVars

\* "never let the LLM under-call obvious heuristic flags" (llm.py): after an
\* undisturbed scan a flag of each type the rules found is open, as severe.
HeuristicsHeard ==
    [][\A s \in Scans : Save(s) /\ scan[s].alone =>
          \A r \in RuleFlags(scan[s].read) :
             r.severity >= Medium =>
                \E g \in FlagKinds : /\ g.type = r.type
                                     /\ g.severity >= r.severity
                                     /\ open'[g] > 0]_auditVars

\* "Idempotent on inputs_hash per (aid_request, engine)" (service.py): unless
\* it is forced, no scan saves a second assessment of the same inputs.
AssessedOnce ==
    [][\A s \in Scans : Save(s) /\ ~scan[s].force =>
          InputsHash(scan[s].read) \notin assessed]_auditVars
=============================================================================
