---------------------------- MODULE Declarations ----------------------------
(***************************************************************************)
(* Declarations: the registry a process keeps in memory                    *)
(* (earmark-declarations/src/registry.rs), the two packs that fill it      *)
(* (dev_pack.rs, portfolio_pack.rs), the declarations kept in a store      *)
(* (register_*, get_* and list_* of file_store.rs) and their way into      *)
(* another workspace (archive.rs, import_archive).                         *)
(*                                                                         *)
(* A declaration is kept as its kind and the declarations it refers to.    *)
(* An id carries the prefix of its kind (ids.rs), so one function from ids *)
(* stands for the registry's nine maps, and one for a store's directories. *)
(* verify_registry changes nothing, and is left out with the origins that  *)
(* it asks for.                                                            *)
(***************************************************************************)
EXTENDS Naturals

CONSTANTS Own,  \* an application's declarations, by id
          Kept  \* the ids of what applications keep in the source

Kinds == {"class", "system", "workflow", "template", "protocol", "validator",
          "rule", "policy", "pack"}

(* No store keeps validators or relation rules.                            *)
Storable == Kinds \ {"validator", "rule"}

Declaration(kind, refs) == [kind |-> kind, refs |-> refs]

(* A map with a declaration put in, over one with the same id.             *)
Insert(f, k, d) == [j \in DOMAIN f \cup {k} |-> IF j = k THEN d ELSE f[j]]
Overlay(f, g) == [k \in DOMAIN f \cup DOMAIN g |-> IF k \in DOMAIN g THEN g[k] ELSE f[k]]
Empty == [k \in {} |-> k]

Dangling(f) == (UNION {f[k].refs : k \in DOMAIN f}) \ DOMAIN f

-----------------------------------------------------------------------------
(* The packs.                                                              *)

WorkClasses == {"cls_epic", "cls_work_item", "cls_decision", "cls_plan", "cls_review"}
BindingClasses == {"cls_artifact_binding", "cls_selection_policy", "cls_provider_profile",
                   "cls_handoff", "cls_report"}
FlowClasses == {"cls_handoff_artifact", "cls_instruction", "cls_blocker", "cls_evidence",
                "cls_release_readiness"}
SessionClasses == {"cls_evidence_pack", "cls_continuity_session", "cls_context_shard"}
DevClasses == WorkClasses \cup BindingClasses \cup FlowClasses \cup SessionClasses

Transition(inputs, outputs, template) ==
  [inputs |-> inputs, outputs |-> outputs, template |-> template, protocol |-> "rp_default"]
Contracts(transitions) ==
  UNION {t.inputs \cup t.outputs \cup {t.template, t.protocol} : t \in transitions}

DevTransitions ==
  {Transition({"cls_instruction"}, {"cls_artifact_binding"}, "pt_dev_execution_packet"),
   Transition({"cls_work_item"}, {"cls_plan"}, "pt_dev_planning_packet"),
   Transition({"cls_plan"}, {"cls_artifact_binding"}, "pt_dev_execution_packet"),
   Transition({"cls_artifact_binding"}, {"cls_review"}, "pt_review_packet"),
   Transition({"cls_work_item"}, {"cls_blocker"}, "pt_dev_planning_packet"),
   Transition({"cls_artifact_binding"}, {"cls_evidence"}, "pt_dev_execution_packet"),
   Transition({"cls_review", "cls_evidence"}, {"cls_release_readiness"}, "pt_review_packet")}
DevTemplates == {"pt_dev_planning_packet", "pt_dev_execution_packet", "pt_review_packet"}
DevRules == {"rule_depends_on", "rule_belongs_to_epic"}

(* sys_development lists a class no pack registers, and not cls_report.    *)
DevSystemRefs == (DevClasses \ {"cls_report"}) \cup {"cls_worker_profile", "wf_orchestrate_work"}

DevPack ==
  [k \in DevClasses \cup DevTemplates \cup DevRules
         \cup {"wf_orchestrate_work", "rp_default", "sel_fastest_worker", "sp_earmark_dev", "sys_development"} |->
     CASE k \in DevClasses -> Declaration("class", {})
       [] k \in DevTemplates -> Declaration("template", {})
       [] k = "rule_depends_on" -> Declaration("rule", {"cls_work_item"})
       [] k = "rule_belongs_to_epic" -> Declaration("rule", {"cls_work_item", "cls_epic"})
       [] k = "wf_orchestrate_work" -> Declaration("workflow", Contracts(DevTransitions))
       [] k = "rp_default" -> Declaration("protocol", {})
       [] k = "sel_fastest_worker" -> Declaration("policy", {})
       [] k = "sp_earmark_dev" -> Declaration("pack", {"sys_development"})
       [] k = "sys_development" -> Declaration("system", DevSystemRefs)]

(* Mutant: a class is not registered.                                      *)
PortfolioClassesButOne == {"cls_portfolio_item", "cls_professional_experience"}

PortfolioClasses ==
  {"cls_portfolio_item", "cls_professional_experience", "cls_architectural_proof"}
PortfolioTransitions ==
  {Transition({c}, {c}, "pt_portfolio_execution") : c \in {"cls_portfolio_item", "cls_architectural_proof"}}

PortfolioPack ==
  [k \in PortfolioClasses
         \cup {"wf_portfolio_buildup", "pt_portfolio_execution", "sp_portfolio_public", "sys_portfolio"} |->
     CASE k \in PortfolioClasses -> Declaration("class", {})
       [] k = "wf_portfolio_buildup" -> Declaration("workflow", Contracts(PortfolioTransitions))
       [] k = "pt_portfolio_execution" -> Declaration("template", {})
       [] k = "sp_portfolio_public" -> Declaration("pack", {"sys_portfolio"})
       [] k = "sys_portfolio" ->
            Declaration("system", PortfolioClasses \cup {"wf_portfolio_buildup"})]

Packs == {"dev", "portfolio"}
Pack(p) == IF p = "dev" THEN DevPack ELSE PortfolioPack
PackIds == DOMAIN DevPack \cup DOMAIN PortfolioPack
Ids == PackIds \cup DOMAIN Own

(* What an application declares: new ids, or pack ids with their kind.     *)
ASSUME OwnAssumption ==
  \A k \in DOMAIN Own :
    /\ Own[k].kind \in Kinds
    /\ Own[k] = Declaration(Own[k].kind, Own[k].refs)
    /\ \A p \in Packs : k \in DOMAIN Pack(p) => Own[k].kind = Pack(p)[k].kind
ASSUME KeptAssumption == Kept \subseteq Ids

(* The declarations an id may stand for.                                   *)
Forms(k) == {Pack(p)[k] : p \in {q \in Packs : k \in DOMAIN Pack(q)}}
            \cup (IF k \in DOMAIN Own THEN {Own[k]} ELSE {})
Maps(f) == DOMAIN f \subseteq Ids /\ \A k \in DOMAIN f : f[k] \in Forms(k)
Of(f, kind) == {k \in DOMAIN f : f[k].kind = kind}

-----------------------------------------------------------------------------
VARIABLES
  registry, \* of the process that works on the source
  loaded,   \* the packs it has registered since it began
  source, target, \* the declarations in the two stores
  archive,
  phase, step, todo, \* where the user's export or import is
  overwrite,
  (* Observers. *)
  seen,     \* the source when the export began
  had,      \* the target when the import began
  quiet     \* nothing was declared in the source, or the target, meanwhile

vars == <<registry, loaded, source, target, archive, phase, step, todo, overwrite,
          seen, had, quiet>>

Init ==
  /\ registry = Empty /\ loaded = {}
  /\ source = Empty /\ target = Empty /\ archive = Empty
  /\ phase = "rest" /\ step = 0 /\ todo = {} /\ overwrite = FALSE
  /\ seen = Empty /\ had = Empty /\ quiet = FALSE

UserRests == UNCHANGED <<archive, phase, step, todo, overwrite, seen, had>>
StoresRest == UNCHANGED <<source, target>>

-----------------------------------------------------------------------------
(* The registry.                                                           *)

(* The process ends and another begins with InProcessRegistry::new.        *)
Restart ==
  /\ registry' = Empty /\ loaded' = {}
  /\ StoresRest /\ UserRests /\ UNCHANGED quiet

(* register_dev_pack, register_portfolio_pack.  Their ids differ, so the   *)
(* order of the insertions does not show.                                  *)
RegisterPack(p) ==
  /\ registry' = Overlay(registry, Pack(p))
  /\ loaded' = loaded \cup {p}
  /\ StoresRest /\ UserRests /\ UNCHANGED quiet

(* An application registers a declaration of its own, or one it has read   *)
(* from the store.                                                         *)
Declare(k) ==
  /\ registry' = Insert(registry, k, Own[k])
  /\ StoresRest /\ UserRests /\ UNCHANGED <<loaded, quiet>>

Load(k) ==
  /\ k \in DOMAIN source
  /\ registry' = Insert(registry, k, source[k])
  /\ StoresRest /\ UserRests /\ UNCHANGED <<loaded, quiet>>

-----------------------------------------------------------------------------
(* The stores: register_* of a declaration the registry has, or, in the    *)
(* target, of the application's.  The audit reads no declaration.          *)

Keep(k) ==
  /\ k \in DOMAIN registry \cap Kept
  /\ registry[k].kind \in Storable
  /\ source' = Insert(source, k, registry[k])
  /\ quiet' = (quiet /\ phase # "export")
  /\ UserRests /\ UNCHANGED <<registry, loaded, target>>

KeepInTarget(k) ==
  /\ Own[k].kind \in Storable
  /\ target' = Insert(target, k, Own[k])
  /\ quiet' = (quiet /\ phase \notin {"import", "imported"})
  /\ UserRests /\ UNCHANGED <<registry, loaded, source>>

-----------------------------------------------------------------------------
(* export_workspace reads four kinds, one after the other: it lists the    *)
(* ids, and gets each.  Objects and records are Archive.tla's.             *)

(* Mutant: classes are not exported.                                       *)
OrderWithoutClasses(activity) ==
  IF activity = "export" THEN <<"pack", "system", "system", "workflow">>
  ELSE <<"class", "system", "workflow", "pack">>

Order(activity) == IF activity = "export" THEN <<"pack", "class", "system", "workflow">>
                   ELSE <<"class", "system", "workflow", "pack">>
Travels == {"pack", "class", "system", "workflow"}

Begin(activity) ==
  /\ phase \in {"rest", "exported"}
  /\ phase' = activity /\ step' = 1 /\ todo' = {}
  /\ UNCHANGED <<registry, loaded, source, target>>

Export ==
  /\ Begin("export")
  /\ archive' = Empty /\ seen' = source /\ quiet' = TRUE
  /\ UNCHANGED <<overwrite, had>>

(* An archive is only had from an export that ended.                       *)
Import(replace) ==
  /\ phase = "exported"
  /\ Begin("import")
  /\ overwrite' = replace /\ had' = target
  /\ UNCHANGED <<archive, seen, quiet>>

NextKind ==
  /\ phase \in {"export", "import"}
  /\ todo = {} /\ step \in 1..4
  /\ todo' = Of(IF phase = "export" THEN source ELSE archive, Order(phase)[step])
  /\ step' = step + 1
  /\ UNCHANGED <<registry, loaded, source, target, archive, phase, overwrite, seen, had, quiet>>

Get(k) ==
  /\ phase = "export" /\ k \in todo
  /\ todo' = todo \ {k}
  /\ archive' = Insert(archive, k, source[k])
  /\ UNCHANGED <<registry, loaded, source, target, phase, step, overwrite, seen, had, quiet>>

(* Mutant: what the target has is overwritten.                             *)
SaveOver(k) ==
  /\ phase = "import" /\ k \in todo
  /\ todo' = todo \ {k}
  /\ target' = Insert(target, k, archive[k])
  /\ UNCHANGED <<registry, loaded, source, archive, phase, step, overwrite, seen, had, quiet>>

(* import_archive saves a declaration the target lacks, or any.            *)
Save(k) ==
  /\ phase = "import" /\ k \in todo
  /\ todo' = todo \ {k}
  /\ target' = IF overwrite \/ k \notin DOMAIN target THEN Insert(target, k, archive[k]) ELSE target
  /\ UNCHANGED <<registry, loaded, source, archive, phase, step, overwrite, seen, had, quiet>>

Finish ==
  /\ phase \in {"export", "import"}
  /\ todo = {} /\ step = 5
  /\ phase' = IF phase = "export" THEN "exported" ELSE "imported"
  /\ UNCHANGED <<registry, loaded, source, target, archive, step, todo, overwrite, seen, had, quiet>>

(* Mutant: what was listed is not forgotten.                               *)
StopShort ==
  /\ phase \in {"export", "import", "imported"}
  /\ phase' = IF phase = "export" THEN "rest" ELSE "exported"
  /\ step' = 0
  /\ UNCHANGED <<registry, loaded, source, target, archive, todo, overwrite, seen, had, quiet>>

(* An I/O error or the end of the process; what was saved stays.  The      *)
(* archive of an export that ended can be imported again.                  *)
Stop ==
  /\ phase \in {"export", "import", "imported"}
  /\ phase' = IF phase = "export" THEN "rest" ELSE "exported"
  /\ step' = 0 /\ todo' = {}
  /\ UNCHANGED <<registry, loaded, source, target, archive, overwrite, seen, had, quiet>>

-----------------------------------------------------------------------------
Next ==
  \/ Restart
  \/ \E p \in Packs : RegisterPack(p)
  \/ \E k \in DOMAIN Own : Declare(k) \/ KeepInTarget(k)
  \/ \E k \in Ids : Load(k) \/ Keep(k) \/ Get(k) \/ Save(k)
  \/ Export \/ (\E b \in BOOLEAN : Import(b)) \/ NextKind \/ Finish \/ Stop

Spec == Init /\ [][Next]_vars

-----------------------------------------------------------------------------
(* Properties.                                                             *)

TypeOK ==
  /\ Maps(registry) /\ Maps(source) /\ Maps(target) /\ Maps(archive)
  /\ Maps(seen) /\ Maps(had)
  /\ loaded \subseteq Packs
  /\ phase \in {"rest", "export", "exported", "import", "imported"}
  /\ step \in 0..5
  /\ todo \subseteq (IF phase = "export" THEN DOMAIN source ELSE DOMAIN archive)
  /\ overwrite \in BOOLEAN /\ quiet \in BOOLEAN

(* A process that has registered a pack finds every declaration that what  *)
(* it has of the pack refers to, whatever else it registers or reads from  *)
(* the store, but for cls_worker_profile, which no pack registers, and     *)
(* rp_default, which the portfolio pack takes from the dev pack            *)
(* (dev_pack.rs, portfolio_pack.rs; dev_pack_test.rs looks ids up, but     *)
(* follows none).                                                          *)
RegistryResolves ==
  \A p \in loaded : \A k \in DOMAIN Pack(p) \cap DOMAIN registry :
    registry[k] = Pack(p)[k] =>
      registry[k].refs \subseteq DOMAIN registry \cup {"cls_worker_profile"}
                                \cup (IF "dev" \in loaded THEN {} ELSE {"rp_default"})

(* What an import that ended has brought is all of what the source had of  *)
(* the kinds that travel, as it was when the export began, if nothing was  *)
(* declared while either ran, and without overwrite it has changed nothing *)
(* the target had, also when the import repeats one that stopped.          *)
ArchiveArrives ==
  phase = "imported" /\ quiet =>
    /\ DOMAIN target = DOMAIN had \cup {k \in DOMAIN seen : seen[k].kind \in Travels}
    /\ \A k \in DOMAIN target :
         target[k] = IF k \in DOMAIN had /\ (~overwrite \/ k \notin DOMAIN archive)
                     THEN had[k] ELSE seen[k]

(* The declarations of the target then refer to nothing that is missing,   *)
(* but for what was missing from the source or the target before, and the  *)
(* templates, protocols and policies of the source: an archive has no room *)
(* for them.                                                               *)
TransferResolves ==
  phase = "imported" /\ quiet =>
    Dangling(target) \subseteq Dangling(seen) \cup Dangling(had)
                              \cup {k \in DOMAIN seen : seen[k].kind \notin Travels}
=============================================================================
