------------------------------ MODULE StrategySpec ------------------------------
(***************************************************************************)
(* One strategy record on its way from the operator to the agent.  A       *)
(* record has flat legacy fields and, once migrated, a typed strategy_spec *)
(* that takes precedence over them.  The web app canonicalises a record    *)
(* when it loads and when it saves it, keeps the spec in step with the     *)
(* fields an operator edits, writes a payload of the record to the active  *)
(* setting, and the agent canonicalises that payload once more.            *)
(*                                                                         *)
(* Code: trading/strategy_loader.py, the edits and the activation of       *)
(* webui/routes/strategies.py.  One record, one binding, one AI role, one  *)
(* prompt; the rule list is the set of its sources (nothing else of a rule *)
(* is read), the tools those that are switched on.                         *)
(* Concurrent requests, versions and statuses are StrategyLifecycle's.     *)
(***************************************************************************)
EXTENDS Integers, FiniteSets

CONSTANTS
  Absent,         \* a key the dictionary lacks, or no dictionary
  Null,           \* a JSON null
  Number,         \* the version of the record, in its file's name
  Text,           \* what the text fields may hold
  Rule,           \* sources of signal rules
  ApprovedModels, \* APPROVED_AI_MODELS with the aliases it lets through
  StoredRecords,  \* records a first load may find
  EditRequests    \* bodies of the edit requests

VARIABLES
  file,        \* the record on disk
  setting,     \* the payload in active_strategy_<symbol>
  wanted       \* history: what the record said first, with every edit since

specVars == <<file, setting, wanted>>

RecordModes   == {"algo_only", "algo_ai", "ai_signal"}
SetupFamilies == {"trend_continuation", "pullback_continuation", "range_reversal",
                  "breakout_retest", "momentum_expansion", "discretionary_ai"}
EMA           == {"ema_crossover"}
Discovery     == {"ai_signal_discovery", "ui_ai_signal_card"}

\* Records of every age: flat ones, and typed ones beside stale flat fields.  A
\* typed record's metadata has no version, or the record's own, and its entry
\* model no null list (nothing in src/ writes one; the agent would then load no
\* rule where the catalogue shows the EMA rule).
RuleList == SUBSET Rule
TypedSpecs ==
  [mode : Text, family : Text, source : Text, prompt : Text,
   version : {0, Number}, model : Text, rules : {Absent} \cup RuleList,
   sources : {Absent} \cup RuleList]
Records ==
  [mode : Text, family : Text, source : Text, prompt : Text,
   version : {Number}, model : Text, rules : {Absent, Null} \cup RuleList,
   tools : SUBSET Text, spec : {Absent} \cup TypedSpecs]

\* A request is a function from the fields it names to their values; a null leaves
\* the field as it is.  A mode has been checked by _strict_signal_mode.
EditValues(f) ==
  {Null} \cup (CASE f = "mode" -> RecordModes
                 [] f = "rules" -> RuleList
                 [] OTHER -> Text)
EditFields == {"mode", "source", "prompt", "model", "rules"}

ASSUME SpecAssumption ==
  /\ Number \in Nat \ {0}
  /\ Absent # Null /\ Null \notin Text /\ Absent \notin TypedSpecs
  /\ \A v \in RuleList : v \notin {Absent, Null}
  /\ EMA \subseteq Rule
  /\ RecordModes \cup SetupFamilies \cup {"none", "default"} \subseteq Text
  /\ "default" \in ApprovedModels /\ {"none", "blank"} \cap ApprovedModels = {}
  /\ StoredRecords \subseteq Records
  /\ \A e \in EditRequests :
       DOMAIN e \subseteq EditFields /\ \A f \in DOMAIN e : e[f] \in EditValues(f)

----------------------------------------------------------------------------
(* Resolution: the spec's field if it says something, else the flat one.   *)

SpecFirst(r, f, silent) ==
  IF r.spec # Absent /\ r.spec[f] \notin silent THEN r.spec[f] ELSE r[f]

NormalMode(m)    == IF m \in RecordModes THEN m ELSE "ai_signal"
SignalMode(r)    == NormalMode(SpecFirst(r, "mode", {""}))
Source(r)        == SpecFirst(r, "source", {""})
Prompt(r)        == SpecFirst(r, "prompt", {""})
RecordVersion(r) == SpecFirst(r, "version", {0})

\* _validate_ai_models after the blank entries are dropped
Approved(m) == CASE m \in {"none", "blank"} -> "none"
                 [] m \in ApprovedModels -> m
                 [] OTHER -> "default"
Model(r) == Approved(SpecFirst(r, "model", {"none"}))

NormalRules(v, toEma) ==
  IF v \notin {Absent, Null, {}} THEN v ELSE IF toEma THEN EMA ELSE {}

SignalRulesOf(r, toEma) ==
  IF r.spec # Absent /\ r.spec.rules # Absent
  THEN NormalRules(r.spec.rules, toEma /\ r.spec.rules = Null)
  ELSE IF r.spec # Absent /\ r.spec.sources # Absent
  THEN IF r.spec.sources = Null THEN NormalRules(Null, toEma) ELSE r.spec.sources
  ELSE NormalRules(r.rules, toEma /\ r.rules = Null)

Infer(r) ==
  CASE r.family \in SetupFamilies -> r.family
    [] r.family \notin SetupFamilies
         /\ (NormalMode(r.mode) = "ai_signal" \/ Source(r) \in Discovery) -> "discretionary_ai"
    [] OTHER -> IF {"bos_guard", "fvg_guard"} \cap r.tools # {} THEN "breakout_retest"
                ELSE IF {"fast_fingers", "trendilo"} \cap r.tools # {} THEN "momentum_expansion"
                ELSE IF EMA \subseteq SignalRulesOf(r, TRUE) THEN "trend_continuation"
                ELSE "pullback_continuation"

----------------------------------------------------------------------------
(* Migration, canonical records, payloads.                                 *)

\* A typed spec keeps what it says; the rest comes from the flat fields.
MigrateTyped(r) ==
  LET s == r.spec
      mode == NormalMode(IF s.mode # "" THEN s.mode ELSE r.mode)
  IN [mode |-> mode,
      family |-> IF s.family \in SetupFamilies THEN s.family
                 ELSE Infer([r EXCEPT !.mode = mode, !.family = ""]),
      prompt |-> IF s.prompt # "" THEN s.prompt ELSE r.prompt,
      source |-> Source(r),
      version |-> IF r.version > 0 THEN r.version ELSE s.version,
      rules |-> s.rules,
      sources |-> IF s.sources # Absent THEN s.sources ELSE SignalRulesOf(r, TRUE),
      model |-> IF s.model # "none" THEN s.model ELSE r.model]

Migrate(r) ==
  IF r.spec # Absent THEN MigrateTyped(r)
  ELSE [mode |-> NormalMode(r.mode), family |-> Infer(r), prompt |-> r.prompt,
        source |-> Source(r), version |-> RecordVersion(r), rules |-> Absent,
        sources |-> SignalRulesOf(r, TRUE), model |-> r.model]

SetupFamily(r) ==
  IF r.spec # Absent /\ r.spec.family \in SetupFamilies THEN r.spec.family
  ELSE Migrate(r).family

Resolved(r) ==
  [r EXCEPT !.mode = SignalMode(r), !.family = SetupFamily(r), !.source = Source(r),
            !.prompt = Prompt(r), !.version = RecordVersion(r), !.model = Model(r)]

Canonical(r) == Resolved([r EXCEPT !.spec = Migrate(r)])

\* build_algorithmic_params
AlgorithmicRules(r) == SignalRulesOf(r, r.rules \in {Absent, Null, {}})

ActivePayload(r) ==
  [Resolved(r) EXCEPT !.rules = AlgorithmicRules(r), !.spec = Migrate(r)]

\* load_active_strategy of a setting's text
Loaded(raw) ==
  LET data == ActivePayload(Canonical(raw))
      full == [data EXCEPT !.spec = Migrate(data)]
  IN [mode |-> SignalMode(full), family |-> full.spec.family, prompt |-> Prompt(full),
      version |-> RecordVersion(data), model |-> Model(full), rules |-> AlgorithmicRules(full)]

----------------------------------------------------------------------------
(* Edits.                                                                  *)

\* Mutant: the spec is refreshed with what it already says.
SyncedSpecStale(r, explicit) ==
  Migrate([r EXCEPT !.spec.mode = SignalMode(r), !.spec.prompt = Prompt(r),
                    !.spec.model = Model(r), !.spec.source = Source(r)])

\* _sync_strategy_spec_write_fields
SyncedSpec(r, explicit) ==
  LET Take(f, edited, resolved) == IF f \in explicit THEN edited ELSE resolved
  IN Migrate([r EXCEPT
       !.spec.mode = Take("mode", NormalMode(r.mode), SignalMode(r)),
       !.spec.prompt = Take("prompt", r.prompt, Prompt(r)),
       !.spec.model = Take("model", IF r.model = "blank" THEN "none" ELSE r.model, Model(r)),
       !.spec.source = Take("source", IF r.source # "" THEN r.source ELSE Source(r), Source(r)),
       !.spec.version = RecordVersion(r)])

\* _save_version and save_strategy_record
Saved(r, explicit) ==
  LET Keep(f, resolved) == IF f \in explicit THEN r[f] ELSE resolved
      flat == [r EXCEPT !.mode = Keep("mode", SignalMode(r)),
                        !.family = SetupFamily(r),
                        !.prompt = Keep("prompt", Prompt(r)),
                        !.source = Keep("source", Source(r))]
      typed == [flat EXCEPT !.spec = SyncedSpec(flat, explicit)]
  IN Canonical([typed EXCEPT !.model = Model(typed)])

\* _validate_signal_mode_for_source
ModeFitsSource(m, s) == (m = "ai_signal") <=> (s \in Discovery)

\* The record of a request: the fields it sets, the others as they were.
Sets(e, f) == f \in DOMAIN e /\ e[f] # Null
Edited(r, e) ==
  LET Set(f) == IF Sets(e, f) THEN e[f] ELSE r[f]
  IN [r EXCEPT !.mode = Set("mode"), !.source = Set("source"), !.prompt = Set("prompt"),
               !.model = Set("model"), !.rules = Set("rules")]

\* update_strategy and update_strategy_models.
EditStrategy(e) ==
  LET data == Canonical(file)
      next == Saved(Edited(data, e), DOMAIN e)
      source == IF Sets(e, "source") /\ e["source"] # "" THEN e["source"] ELSE Source(data)
      Ask(f) == IF Sets(e, f) THEN e[f] ELSE wanted[f]
  IN /\ Sets(e, "mode") => ModeFitsSource(e["mode"], source)
     /\ file' = next
     /\ wanted' = [wanted EXCEPT !.mode = Ask("mode"), !.prompt = Ask("prompt"),
                                 !.model = Approved(Ask("model"))]
     \* sync_active_strategy_bindings
     /\ setting' = IF setting # Absent /\ Canonical(setting).version = RecordVersion(next)
                 THEN ActivePayload(next) ELSE setting

ActivateRecord ==
  /\ setting' = ActivePayload(Canonical(file))
  /\ UNCHANGED <<file, wanted>>

----------------------------------------------------------------------------
\* What a record says before anything touches it: spec first, then legacy.
Says(r) == [mode |-> SignalMode(r), family |-> SetupFamily(r), prompt |-> Prompt(r),
            version |-> Number, model |-> Model(r), rules |-> SignalRulesOf(r, TRUE)]

SpecInit ==
  /\ file \in StoredRecords
  /\ setting = Absent
  /\ wanted = Says(file)

SpecNext == ActivateRecord \/ (\E e \in EditRequests : EditStrategy(e))

SpecSpec == SpecInit /\ [][SpecNext]_specVars

----------------------------------------------------------------------------
(* Properties.                                                             *)

\* However old the record is and however often it was edited, loaded, saved and
\* activated: what the catalogue shows and what the agent loads is the operator's
\* last mode, prompt and model, the version of the file, and the set-up family
\* and rules the record had when it was first read.  (An edit of the rules in
\* params is the exception it looks like: the sources the first load copied
\* into the spec win over it for good.)
AgentRunsTheEdit ==
  /\ Loaded(file) = wanted
  /\ setting # Absent => Loaded(setting) = wanted
=============================================================================
