-------------------------- MODULE DeclarationsProofs --------------------------
(***************************************************************************)
(* Proofs about Declarations, for every application and whatever it keeps. *)
(***************************************************************************)
EXTENDS Declarations, TLAPS

-----------------------------------------------------------------------------
(* The operators.                                                          *)

LEMMA InsertFacts ==
  ASSUME NEW f, NEW k, NEW d
  PROVE  /\ DOMAIN Insert(f, k, d) = DOMAIN f \cup {k}
         /\ Insert(f, k, d)[k] = d
         /\ \A j \in DOMAIN f : j # k => Insert(f, k, d)[j] = f[j]
  BY DEF Insert

LEMMA OverlayFacts ==
  ASSUME NEW f, NEW g
  PROVE  /\ DOMAIN Overlay(f, g) = DOMAIN f \cup DOMAIN g
         /\ \A k \in DOMAIN g : Overlay(f, g)[k] = g[k]
         /\ \A k \in DOMAIN f : k \notin DOMAIN g => Overlay(f, g)[k] = f[k]
  BY DEF Overlay

LEMMA EmptyMaps == Maps(Empty) /\ DOMAIN Empty = {}
  BY DEF Empty, Maps

(* A map stays one when an id gets one of its declarations.                *)
LEMMA InsertMaps ==
  ASSUME NEW f, Maps(f), NEW k \in Ids, NEW d \in Forms(k)
  PROVE  Maps(Insert(f, k, d))
<1> DEFINE g == Insert(f, k, d)
<1>1. DOMAIN g = DOMAIN f \cup {k}
  BY InsertFacts
<1>2. \A j \in DOMAIN g : g[j] \in Forms(j)
  <2> TAKE j \in DOMAIN g
  <2>1. CASE j = k
    BY <2>1 DEF Insert
  <2>2. CASE j # k
    <3>1. j \in DOMAIN f /\ g[j] = f[j]
      BY <1>1, <2>2 DEF Insert
    <3> QED  BY <3>1 DEF Maps
  <2> QED  BY <2>1, <2>2
<1>3. DOMAIN f \subseteq Ids
  BY DEF Maps
<1> HIDE DEF g
<1>4. Maps(g)
  BY <1>1, <1>2, <1>3 DEF Maps
<1> QED  BY <1>4 DEF g

LEMMA OverlayMaps ==
  ASSUME NEW f, NEW g, Maps(f), Maps(g)
  PROVE  Maps(Overlay(f, g))
<1> DEFINE h == Overlay(f, g)
<1>1. DOMAIN h = DOMAIN f \cup DOMAIN g
  BY OverlayFacts
<1>2. \A k \in DOMAIN h : h[k] \in Forms(k)
  <2> TAKE k \in DOMAIN h
  <2>1. CASE k \in DOMAIN g
    BY <2>1, OverlayFacts DEF Maps
  <2>2. CASE k \notin DOMAIN g
    <3>1. k \in DOMAIN f /\ h[k] = f[k]
      BY <1>1, <2>2, OverlayFacts
    <3> QED  BY <3>1 DEF Maps
  <2> QED  BY <2>1, <2>2
<1>3. DOMAIN f \subseteq Ids /\ DOMAIN g \subseteq Ids
  BY DEF Maps
<1> HIDE DEF h
<1>4. Maps(h)
  BY <1>1, <1>2, <1>3 DEF Maps
<1> QED  BY <1>4 DEF h

LEMMA PackForms ==
  ASSUME NEW p \in Packs
  PROVE  /\ DOMAIN Pack(p) \subseteq Ids
         /\ \A k \in DOMAIN Pack(p) : Pack(p)[k] \in Forms(k)
<1>1. DOMAIN Pack(p) \subseteq Ids
  BY DEF Packs, Pack, Ids, PackIds
<1>2. \A k \in DOMAIN Pack(p) : Pack(p)[k] \in Forms(k)
  BY DEF Forms
<1> QED  BY <1>1, <1>2

LEMMA OwnForms == \A k \in DOMAIN Own : k \in Ids /\ Own[k] \in Forms(k)
  BY DEF Forms, Ids

-----------------------------------------------------------------------------
(* The packs.                                                              *)

LEMMA DevWorkflowRefs == Contracts(DevTransitions) \subseteq DevClasses \cup DevTemplates \cup {"rp_default"}
  BY DEF Contracts, DevTransitions, Transition, DevTemplates, DevClasses, WorkClasses,
         BindingClasses, FlowClasses, SessionClasses

LEMMA PortfolioWorkflowRefs ==
  Contracts(PortfolioTransitions) \subseteq PortfolioClasses \cup {"pt_portfolio_execution", "rp_default"}
  BY DEF Contracts, PortfolioTransitions, Transition, PortfolioClasses

LEMMA DevRefs ==
  \A k \in DOMAIN DevPack : DevPack[k].refs \subseteq DOMAIN DevPack \cup {"cls_worker_profile"}
<1>1. {"cls_work_item", "cls_epic"} \subseteq DevClasses
  BY DEF DevClasses, WorkClasses
<1>2. DevSystemRefs \subseteq DevClasses \cup {"cls_worker_profile", "wf_orchestrate_work"}
  BY DEF DevSystemRefs
<1> QED  BY <1>1, <1>2, DevWorkflowRefs DEF DevPack, Declaration, DevRules

LEMMA PortfolioRefs ==
  \A k \in DOMAIN PortfolioPack :
    PortfolioPack[k].refs \subseteq DOMAIN PortfolioPack \cup {"rp_default"}
  BY PortfolioWorkflowRefs DEF PortfolioPack, Declaration

-----------------------------------------------------------------------------
(* The invariant.                                                          *)

AllMap == /\ Maps(registry) /\ Maps(source) /\ Maps(target) /\ Maps(archive)
          /\ Maps(seen) /\ Maps(had)
PhaseOK == /\ phase \in {"rest", "export", "exported", "import", "imported"}
           /\ step \in 0..5
           /\ loaded \subseteq Packs
           /\ overwrite \in BOOLEAN /\ quiet \in BOOLEAN
TodoOK == todo \subseteq (IF phase = "export" THEN DOMAIN source ELSE DOMAIN archive)
PacksThere == \A p \in loaded : DOMAIN Pack(p) \subseteq DOMAIN registry

(* The kinds an export or an import has listed.                            *)
Passed(activity) == {Order(activity)[i] : i \in {j \in 1..4 : j < step}}
Copies(f, g) == \A k \in DOMAIN f : k \in DOMAIN g /\ f[k] = g[k]
Whole == /\ Copies(archive, seen)
         /\ DOMAIN archive = {k \in DOMAIN seen : seen[k].kind \in Travels}

ExportInv ==
  phase = "export" /\ quiet =>
    /\ source = seen
    /\ Copies(archive, seen)
    /\ DOMAIN archive \cup todo = {k \in DOMAIN seen : seen[k].kind \in Passed("export")}
    /\ step \in 1..5

ArchiveInv == phase \in {"exported", "import", "imported"} /\ quiet => Whole

(* What an import has saved, of what it has listed.                        *)
Arrived == {k \in DOMAIN archive : archive[k].kind \in Passed("import")} \ todo
ImportInv ==
  phase \in {"import", "imported"} /\ quiet =>
    /\ DOMAIN target = DOMAIN had \cup Arrived
    /\ \A k \in DOMAIN target :
         target[k] = IF k \in DOMAIN had /\ (~overwrite \/ k \notin Arrived)
                     THEN had[k] ELSE archive[k]
    /\ todo \subseteq {k \in DOMAIN archive : archive[k].kind \in Passed("import")}
    /\ step \in 1..5
    /\ phase = "imported" => todo = {} /\ step = 5

IInv == AllMap /\ PhaseOK /\ TodoOK /\ PacksThere /\ ExportInv /\ ArchiveInv /\ ImportInv
-----------------------------------------------------------------------------
(* Steps of the registry.                                                  *)

OfUser == <<source, target, archive, phase, step, todo, overwrite, seen, had, quiet>>

LEMMA UserSame ==
  ASSUME IInv, UNCHANGED OfUser, Maps(registry'), loaded' \subseteq Packs, PacksThere'
  PROVE  IInv'
<1> USE DEF OfUser
<1>1. AllMap' /\ PhaseOK' /\ TodoOK'
  BY DEF IInv, AllMap, Maps, PhaseOK, TodoOK
<1>2. ExportInv' /\ ArchiveInv' /\ ImportInv'
  BY DEF IInv, ExportInv, ArchiveInv, ImportInv, Whole, Copies, Passed, Arrived
<1> QED  BY <1>1, <1>2 DEF IInv

LEMMA RegistryStep ==
  ASSUME IInv,
         \/ Restart
         \/ \E p \in Packs : RegisterPack(p)
         \/ \E k \in DOMAIN Own : Declare(k)
         \/ \E k \in Ids : Load(k)
  PROVE  IInv'
<1> USE DEF UserRests, StoresRest, OfUser
<1>1. CASE Restart
  <2>1. Maps(registry') /\ loaded' \subseteq Packs /\ PacksThere'
    BY <1>1, EmptyMaps DEF Restart, PacksThere
  <2> QED  BY <1>1, <2>1, UserSame DEF Restart
<1>2. ASSUME NEW p \in Packs, RegisterPack(p)  PROVE IInv'
  <2>1. Maps(Pack(p))
    BY PackForms DEF Maps
  <2>2. Maps(registry')
    BY <1>2, <2>1, OverlayMaps DEF RegisterPack, IInv, AllMap
  <2>3. DOMAIN registry' = DOMAIN registry \cup DOMAIN Pack(p)
    BY <1>2, OverlayFacts DEF RegisterPack
  <2>4. loaded' \subseteq Packs /\ PacksThere'
    BY <1>2, <2>3 DEF RegisterPack, IInv, PhaseOK, PacksThere
  <2> QED  BY <1>2, <2>2, <2>4, UserSame DEF RegisterPack
<1>3. ASSUME NEW k \in Ids, NEW d \in Forms(k), registry' = Insert(registry, k, d),
             UNCHANGED <<loaded, OfUser>>
      PROVE  IInv'
  <2>1. Maps(registry')
    BY <1>3, InsertMaps DEF IInv, AllMap
  <2>2. DOMAIN registry \subseteq DOMAIN registry'
    BY <1>3 DEF Insert
  <2>3. loaded' \subseteq Packs /\ PacksThere'
    BY <1>3, <2>2 DEF IInv, PhaseOK, PacksThere
  <2> QED  BY <1>3, <2>1, <2>3, UserSame
<1>4. ASSUME NEW k \in DOMAIN Own, Declare(k)  PROVE IInv'
  BY <1>3, <1>4, OwnForms DEF Declare
<1>5. ASSUME NEW k \in Ids, Load(k)  PROVE IInv'
  BY <1>3, <1>5 DEF Load, IInv, AllMap, Maps
<1> QED  BY <1>1, <1>2, <1>4, <1>5

(* Steps that leave the registry alone.                                    *)
LEMMA RegistrySame ==
  ASSUME IInv, UNCHANGED <<registry, loaded>>
  PROVE  Maps(registry)' /\ PacksThere' /\ loaded' \subseteq Packs
  BY DEF IInv, AllMap, Maps, PhaseOK, PacksThere

-----------------------------------------------------------------------------
(* The stores.                                                             *)

LEMMA KeepStep ==
  ASSUME IInv, NEW k \in Ids, Keep(k)
  PROVE  IInv'
<1> USE DEF Keep, UserRests
<1>1. Maps(source')
  BY InsertMaps DEF IInv, AllMap, Maps
<1>2. DOMAIN source \subseteq DOMAIN source'
  BY DEF Insert
<1>3. AllMap' /\ PhaseOK' /\ PacksThere'
  BY <1>1, RegistrySame DEF IInv, AllMap, Maps, PhaseOK
<1>4. TodoOK'
  BY <1>2 DEF IInv, TodoOK
<1>5. ExportInv' /\ ArchiveInv' /\ ImportInv'
  BY DEF IInv, ExportInv, ArchiveInv, ImportInv, Whole, Copies, Passed, Arrived, PhaseOK
<1> QED  BY <1>3, <1>4, <1>5 DEF IInv

LEMMA KeepInTargetStep ==
  ASSUME IInv, NEW k \in DOMAIN Own, KeepInTarget(k)
  PROVE  IInv'
<1> USE DEF KeepInTarget, UserRests
<1>1. Maps(target')
  BY InsertMaps, OwnForms DEF IInv, AllMap
<1>2. AllMap' /\ PhaseOK' /\ PacksThere'
  BY <1>1, RegistrySame DEF IInv, AllMap, Maps, PhaseOK
<1>3. TodoOK'
  BY DEF IInv, TodoOK
<1>4. ExportInv' /\ ArchiveInv'
  BY DEF IInv, ExportInv, ArchiveInv, Whole, Copies, Passed
<1>5. ImportInv'
  BY DEF ImportInv
<1> QED  BY <1>2, <1>3, <1>4, <1>5 DEF IInv

-----------------------------------------------------------------------------
(* The export.                                                             *)

LEMMA ExportBegins ==
  ASSUME IInv, Export
  PROVE  IInv'
<1> USE DEF Export, Begin
<1>1. AllMap' /\ PhaseOK' /\ PacksThere' /\ TodoOK'
  BY EmptyMaps, RegistrySame DEF IInv, AllMap, Maps, PhaseOK, TodoOK
<1>2. Passed("export")' = {}
  BY DEF Passed
<1>3. ExportInv' /\ ArchiveInv' /\ ImportInv'
  BY <1>2, EmptyMaps DEF ExportInv, ArchiveInv, ImportInv, Copies
<1> QED  BY <1>1, <1>3 DEF IInv

LEMMA GetStep ==
  ASSUME IInv, NEW k \in Ids, Get(k)
  PROVE  IInv'
<1> USE DEF Get
<1>1. k \in DOMAIN source
  BY DEF IInv, TodoOK
<1>2. Maps(archive')
  BY <1>1, InsertMaps DEF IInv, AllMap, Maps
<1>3. AllMap' /\ PhaseOK' /\ PacksThere' /\ TodoOK'
  BY <1>2, RegistrySame DEF IInv, AllMap, Maps, PhaseOK, TodoOK
<1>4. DOMAIN archive' = DOMAIN archive \cup {k}
  BY InsertFacts
<1>5. ASSUME quiet  PROVE Copies(archive', seen)
  <2>1. source = seen /\ Copies(archive, seen)
    BY <1>5 DEF IInv, ExportInv
  <2> QED  BY <1>1, <1>4, <2>1 DEF Copies, Insert
<1>6. ASSUME quiet
      PROVE  DOMAIN archive' \cup todo' = {j \in DOMAIN seen : seen[j].kind \in Passed("export")}
  BY <1>4, <1>6 DEF IInv, ExportInv
<1>7. ExportInv'
  BY <1>5, <1>6 DEF IInv, ExportInv, Copies, Passed
<1>8. ArchiveInv' /\ ImportInv'
  BY DEF ArchiveInv, ImportInv
<1> QED  BY <1>3, <1>7, <1>8 DEF IInv

LEMMA PassedGrows ==
  ASSUME NEW activity \in {"export", "import"}, step \in 1..4, step' = step + 1
  PROVE  /\ Passed(activity)' = Passed(activity) \cup {Order(activity)[step]}
         /\ Order(activity)[step] \notin Passed(activity)
<1>1. {j \in 1..4 : j < step'} = {j \in 1..4 : j < step} \cup {step}
  OBVIOUS
<1>2. Passed(activity)' = Passed(activity) \cup {Order(activity)[step]}
  BY <1>1 DEF Passed
<1>3. Order(activity)[step] \notin Passed(activity)
  BY DEF Passed, Order
<1> QED  BY <1>2, <1>3

LEMMA AllPassed ==
  ASSUME NEW activity \in {"export", "import"}, step = 5
  PROVE  Passed(activity) = Travels
<1>1. {j \in 1..4 : j < step} = {1, 2, 3, 4}
  OBVIOUS
<1> QED  BY <1>1 DEF Passed, Order, Travels

LEMMA NextKindStep ==
  ASSUME IInv, NextKind
  PROVE  IInv'
<1> USE DEF NextKind
<1>1. AllMap' /\ PhaseOK' /\ PacksThere' /\ TodoOK'
  BY RegistrySame DEF IInv, AllMap, Maps, PhaseOK, TodoOK, Of
<1>2. step \in 1..4 /\ step' = step + 1
  OBVIOUS
<1>3. ExportInv'
  <2> SUFFICES ASSUME phase = "export", quiet  PROVE ExportInv'
    BY DEF ExportInv
  <2>1. Passed("export")' = Passed("export") \cup {Order("export")[step]}
    BY <1>2, PassedGrows
  <2>2. todo' = {k \in DOMAIN seen : seen[k].kind = Order("export")[step]}
    BY DEF IInv, ExportInv, Of
  <2>3. DOMAIN archive = {k \in DOMAIN seen : seen[k].kind \in Passed("export")}
    BY DEF IInv, ExportInv
  <2>4. DOMAIN archive' \cup todo' = {k \in DOMAIN seen' : seen'[k].kind \in Passed("export")'}
    BY <2>1, <2>2, <2>3
  <2> QED  BY <1>2, <2>4 DEF IInv, ExportInv, Copies
<1>4. ArchiveInv'
  BY DEF IInv, ArchiveInv, Whole, Copies
<1>5. ImportInv'
  <2> SUFFICES ASSUME phase = "import", quiet  PROVE ImportInv'
    BY DEF ImportInv
  <2>1. /\ Passed("import")' = Passed("import") \cup {Order("import")[step]}
        /\ Order("import")[step] \notin Passed("import")
    BY <1>2, PassedGrows
  <2>2. todo' = {k \in DOMAIN archive : archive[k].kind = Order("import")[step]}
    BY DEF Of
  <2>3. Arrived' = Arrived
    BY <2>1, <2>2 DEF Arrived
  <2> QED  BY <1>2, <2>1, <2>2, <2>3 DEF IInv, ImportInv
<1> QED  BY <1>1, <1>3, <1>4, <1>5 DEF IInv

LEMMA FinishStep ==
  ASSUME IInv, Finish
  PROVE  IInv'
<1> USE DEF Finish
<1>1. AllMap' /\ PhaseOK' /\ PacksThere'
  BY RegistrySame DEF IInv, AllMap, Maps, PhaseOK
<1>2. TodoOK'
  BY DEF TodoOK
<1>3. ExportInv'
  BY DEF ExportInv
<1>4. ArchiveInv'
  <2>1. CASE phase = "export"
    <3>1. Passed("export") = Travels
      BY AllPassed
    <3> QED  BY <2>1, <3>1 DEF IInv, ExportInv, ArchiveInv, Whole, Copies
  <2>2. CASE phase = "import"
    BY <2>2 DEF IInv, ArchiveInv, Whole, Copies
  <2> QED  BY <2>1, <2>2
<1>5. ImportInv'
  BY DEF IInv, ImportInv, Arrived, Passed
<1> QED  BY <1>1, <1>2, <1>3, <1>4, <1>5 DEF IInv

LEMMA StopStep ==
  ASSUME IInv, Stop
  PROVE  IInv'
<1> USE DEF Stop
<1>1. AllMap' /\ PhaseOK' /\ PacksThere' /\ TodoOK'
  BY RegistrySame DEF IInv, AllMap, Maps, PhaseOK, TodoOK
<1>2. ExportInv' /\ ArchiveInv' /\ ImportInv'
  BY DEF IInv, ExportInv, ArchiveInv, ImportInv, Whole, Copies
<1> QED  BY <1>1, <1>2 DEF IInv

-----------------------------------------------------------------------------
(* The import.                                                             *)

LEMMA ImportBegins ==
  ASSUME IInv, NEW b \in BOOLEAN, Import(b)
  PROVE  IInv'
<1> USE DEF Import, Begin
<1>1. AllMap' /\ PhaseOK' /\ PacksThere' /\ TodoOK'
  BY RegistrySame DEF IInv, AllMap, Maps, PhaseOK, TodoOK
<1>2. ExportInv' /\ ArchiveInv'
  BY DEF IInv, ExportInv, ArchiveInv, Whole, Copies
<1>3. Passed("import")' = {} /\ Arrived' = {}
  BY DEF Passed, Arrived
<1>4. ImportInv'
  BY <1>3 DEF ImportInv
<1> QED  BY <1>1, <1>2, <1>4 DEF IInv

LEMMA SaveStep ==
  ASSUME IInv, NEW k \in Ids, Save(k)
  PROVE  IInv'
<1> USE DEF Save
<1>1. k \in DOMAIN archive
  BY DEF IInv, TodoOK
<1>2. Maps(target')
  BY <1>1, InsertMaps DEF IInv, AllMap, Maps
<1>3. AllMap' /\ PhaseOK' /\ PacksThere' /\ TodoOK'
  BY <1>2, RegistrySame DEF IInv, AllMap, Maps, PhaseOK, TodoOK
<1>4. ExportInv' /\ ArchiveInv'
  BY DEF IInv, ExportInv, ArchiveInv, Whole, Copies
<1>5. ImportInv'
  <2> SUFFICES ASSUME quiet  PROVE ImportInv'
    BY DEF ImportInv
  <2>1. Arrived' = Arrived \cup {k} /\ k \notin Arrived
    BY <1>1 DEF IInv, ImportInv, Arrived, Passed
  <2>2. /\ DOMAIN target = DOMAIN had \cup Arrived
        /\ \A j \in DOMAIN target :
             target[j] = IF j \in DOMAIN had /\ (~overwrite \/ j \notin Arrived)
                         THEN had[j] ELSE archive[j]
    BY DEF IInv, ImportInv
  <2>3. DOMAIN target' = DOMAIN target \cup {k}
    BY InsertFacts
  <2>4. \A j \in DOMAIN target' :
          target'[j] = IF j \in DOMAIN had /\ (~overwrite \/ j \notin Arrived')
                       THEN had[j] ELSE archive[j]
    <3> TAKE j \in DOMAIN target'
    <3>1. CASE j # k
      <4>1. j \in DOMAIN target /\ target'[j] = target[j]
        BY <2>3, <3>1 DEF Insert
      <4> QED  BY <2>1, <2>2, <3>1, <4>1
    <3>2. CASE j = k /\ (overwrite \/ k \notin DOMAIN target)
      <4>1. target'[k] = archive[k]
        BY <3>2 DEF Insert
      <4> QED  BY <2>1, <2>2, <3>2, <4>1
    <3>3. CASE j = k /\ ~overwrite /\ k \in DOMAIN target
      BY <2>1, <2>2, <3>3
    <3> QED  BY <3>1, <3>2, <3>3
  <2>5. /\ todo' \subseteq {j \in DOMAIN archive : archive[j].kind \in Passed("import")'}
        /\ step' \in 1..5 /\ phase' = "import"
    BY DEF IInv, ImportInv, Passed
  <2>6. DOMAIN target' = DOMAIN had \cup Arrived'
    BY <2>1, <2>2, <2>3
  <2> QED  BY <2>4, <2>5, <2>6 DEF ImportInv
<1> QED  BY <1>3, <1>4, <1>5 DEF IInv

-----------------------------------------------------------------------------
(* The theorems.                                                           *)

THEOREM Invariance == Spec => []IInv
<1>1. Init => IInv
  <2> SUFFICES ASSUME Init  PROVE IInv
    OBVIOUS
  <2>1. AllMap
    BY EmptyMaps DEF Init, AllMap
  <2>3. PhaseOK
    <3>1. step \in 0..5 /\ loaded \subseteq Packs
      BY DEF Init
    <3>2. phase \in {"rest", "export", "exported", "import", "imported"}
      BY DEF Init
    <3>3. overwrite \in BOOLEAN /\ quiet \in BOOLEAN
      BY DEF Init
    <3> QED  BY <3>1, <3>2, <3>3 DEF PhaseOK
  <2>2. TodoOK /\ PacksThere /\ ExportInv /\ ArchiveInv /\ ImportInv
    BY DEF Init, TodoOK, PacksThere, ExportInv, ArchiveInv, ImportInv
  <2> QED  BY <2>1, <2>2, <2>3 DEF IInv
<1>2. IInv /\ [Next]_vars => IInv'
  <2> SUFFICES ASSUME IInv, [Next]_vars  PROVE IInv'
    OBVIOUS
  <2>1. CASE Restart
    BY <2>1, RegistryStep
  <2>2. ASSUME NEW p \in Packs, RegisterPack(p)  PROVE IInv'
    BY <2>2, RegistryStep
  <2>3. ASSUME NEW k \in DOMAIN Own, Declare(k) \/ KeepInTarget(k)  PROVE IInv'
    BY <2>3, RegistryStep, KeepInTargetStep
  <2>4. ASSUME NEW k \in Ids, Load(k) \/ Keep(k) \/ Get(k) \/ Save(k)  PROVE IInv'
    BY <2>4, RegistryStep, KeepStep, GetStep, SaveStep
  <2>5. CASE Export
    BY <2>5, ExportBegins
  <2>6. ASSUME NEW b \in BOOLEAN, Import(b)  PROVE IInv'
    BY <2>6, ImportBegins
  <2>7. CASE NextKind \/ Finish \/ Stop
    BY <2>7, NextKindStep, FinishStep, StopStep
  <2>8. CASE UNCHANGED vars
    <3>1. UNCHANGED OfUser /\ UNCHANGED <<registry, loaded>>
      BY <2>8 DEF vars, OfUser
    <3> QED  BY <3>1, RegistrySame, UserSame
  <2> QED  BY <2>1, <2>2, <2>3, <2>4, <2>5, <2>6, <2>7, <2>8 DEF Next
<1> QED  BY <1>1, <1>2, PTL DEF Spec

(* TypeOK: the registry, the stores and the archive hold under each id a   *)
(* pack's declaration or the application's.                                *)
THEOREM Typed == Spec => []TypeOK
<1>1. IInv => TypeOK
  BY DEF IInv, AllMap, PhaseOK, TodoOK, TypeOK
<1> QED  BY <1>1, Invariance, PTL

(* RegistryResolves: what a process has of the packs it has registered     *)
(* refers to what it has registered, with the two exceptions.              *)
THEOREM Resolves == Spec => []RegistryResolves
<1>1. IInv => RegistryResolves
  <2> SUFFICES ASSUME IInv, NEW p \in loaded, NEW k \in DOMAIN Pack(p)
               PROVE  Pack(p)[k].refs \subseteq
                        DOMAIN registry \cup {"cls_worker_profile"}
                          \cup (IF "dev" \in loaded THEN {} ELSE {"rp_default"})
    BY DEF RegistryResolves
  <2>1. DOMAIN Pack(p) \subseteq DOMAIN registry /\ p \in Packs
    BY DEF IInv, PacksThere, PhaseOK
  <2>2. CASE p = "dev"
    BY <2>1, <2>2, DevRefs DEF Pack
  <2>3. CASE p = "portfolio"
    <3>1. Pack(p)[k].refs \subseteq DOMAIN registry \cup {"rp_default"}
      BY <2>1, <2>3, PortfolioRefs DEF Pack
    <3>2. "dev" \in loaded => "rp_default" \in DOMAIN registry
      <4>1. "rp_default" \in DOMAIN Pack("dev")
        BY DEF Pack, DevPack
      <4> QED  BY <4>1 DEF IInv, PacksThere
    <3> QED  BY <3>1, <3>2
  <2> QED  BY <2>1, <2>2, <2>3 DEF Packs
<1> QED  BY <1>1, Invariance, PTL

LEMMA AllArrived ==
  ASSUME IInv, phase = "imported", quiet
  PROVE  Arrived = DOMAIN archive /\ Whole
<1>1. todo = {} /\ step = 5 /\ Whole
  BY DEF IInv, ImportInv, ArchiveInv
<1>2. Passed("import") = Travels
  BY <1>1, AllPassed
<1> QED  BY <1>1, <1>2 DEF Arrived, Whole, Copies

(* ArchiveArrives: an undisturbed transfer brings what travels, and        *)
(* without overwrite changes nothing.                                      *)
THEOREM Arrives == Spec => []ArchiveArrives
<1>1. IInv => ArchiveArrives
  BY AllArrived DEF IInv, ImportInv, ArchiveArrives, Whole, Copies
<1> QED  BY <1>1, Invariance, PTL

LEMMA DanglingIs ==
  ASSUME NEW f, NEW r
  PROVE  r \in Dangling(f) <=> r \notin DOMAIN f /\ \E k \in DOMAIN f : r \in f[k].refs
<1> DEFINE refs == UNION {f[k].refs : k \in DOMAIN f}
<1>1. r \in refs <=> \E k \in DOMAIN f : r \in f[k].refs
  OBVIOUS
<1>2. Dangling(f) = refs \ DOMAIN f
  BY DEF Dangling
<1> HIDE DEF refs
<1> QED  BY <1>1, <1>2

(* TransferResolves: what then dangles in the target dangled before, or    *)
(* refers to what does not travel.                                         *)
THEOREM Transfers == Spec => []TransferResolves
<1>1. IInv => TransferResolves
  <2> SUFFICES ASSUME IInv, phase = "imported", quiet, NEW r \in Dangling(target)
               PROVE  \/ r \in Dangling(seen) \/ r \in Dangling(had)
                      \/ r \in {k \in DOMAIN seen : seen[k].kind \notin Travels}
    BY DEF TransferResolves
  <2>1. PICK k \in DOMAIN target : r \in target[k].refs
    BY DanglingIs
  <2>2. r \notin DOMAIN target
    BY DanglingIs
  <2>3. /\ DOMAIN target = DOMAIN had \cup DOMAIN archive
        /\ \A j \in DOMAIN target : \/ j \in DOMAIN had /\ target[j] = had[j]
                                    \/ j \in DOMAIN archive /\ target[j] = archive[j]
    <3>1. Arrived = DOMAIN archive
      BY AllArrived
    <3>2. /\ DOMAIN target = DOMAIN had \cup Arrived
          /\ \A j \in DOMAIN target :
               target[j] = IF j \in DOMAIN had /\ (~overwrite \/ j \notin Arrived)
                           THEN had[j] ELSE archive[j]
      BY DEF IInv, ImportInv
    <3>3. DOMAIN target = DOMAIN had \cup DOMAIN archive
      BY <3>1, <3>2
    <3>4. ASSUME NEW j \in DOMAIN target
          PROVE  \/ j \in DOMAIN had /\ target[j] = had[j]
                 \/ j \in DOMAIN archive /\ target[j] = archive[j]
      <4>1. j \in DOMAIN had \/ j \in DOMAIN archive
        BY <3>3
      <4>2. target[j] = IF j \in DOMAIN had /\ (~overwrite \/ j \notin DOMAIN archive)
                        THEN had[j] ELSE archive[j]
        BY <3>1, <3>2
      <4> QED  BY <4>1, <4>2
    <3> QED  BY <3>3, <3>4
  <2>4. CASE k \in DOMAIN had /\ target[k] = had[k]
    BY <2>1, <2>2, <2>3, <2>4, DanglingIs
  <2>5. CASE k \in DOMAIN archive /\ target[k] = archive[k]
    <3>1. k \in DOMAIN seen /\ r \in seen[k].refs
      BY <2>1, <2>5, AllArrived DEF Whole, Copies
    <3>2. r \in DOMAIN seen => seen[r].kind \notin Travels
      BY <2>2, <2>3, AllArrived DEF Whole
    <3> QED  BY <3>1, <3>2, DanglingIs
  <2> QED  BY <2>1, <2>3, <2>4, <2>5
<1> QED  BY <1>1, Invariance, PTL
=============================================================================
