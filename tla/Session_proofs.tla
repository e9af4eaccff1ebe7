---------------------------- MODULE Session_proofs ----------------------------
(***************************************************************************)
(* Three more parts of the daemon that share no state, whatever the users,  *)
(* the ring and the bounds are: a restore that succeeds has the stock       *)
(* module running, no event is lost unseen, and the settings in use are     *)
(* their owner's.                                                          *)
(***************************************************************************)
EXTENDS MCSession, Network_proofs, FiniteSetTheorems, SequenceTheorems

(***************************************************************************)
(* The installer.                                                          *)
(***************************************************************************)

Twin(n) == IF n = "ko" THEN "zst" ELSE "ko"

\* The stock module is at home under n: it is there or its copy is, and the other name is free of
\* it; what is under that one is ours, and goes before the restore that found it ends.
HomeIs(n) ==
  /\ backups[n] \in {"none", "stock"} /\ backups[Twin(n)] = "none"
  /\ backups[n] = "none" => files[n] = "stock"
  /\ backups[n] = "none" /\ files[Twin(n)] # "none" =>
       \/ plan.at = "putBack" /\ plan.list = {} /\ plan.back = {n}
       \/ plan.at = "takeAway" /\ Twin(n) \in plan.list

\* What the lists of the plan in progress say of it.
ListsKnown(n) ==
  /\ plan.at \in {"retire", "build", "switch", "list"} => plan.copied = {}
  /\ plan.at = "backUp" /\ plan.holdsStock =>
       \/ plan.copied = {} /\ plan.list = {n} /\ backups[n] = "none"
       \/ plan.copied = {n} /\ plan.list \subseteq {n} /\ backups[n] = "stock"
  /\ plan.at = "backUp" /\ ~plan.holdsStock => backups[n] = "stock"
  /\ plan.at = "install" => backups[n] = "stock"
  /\ plan.at \in {"idle", "retire", "clear"} => plan.back = {}
  /\ plan.at = "putBack" =>
       \/ plan.list = {n} /\ plan.back = {} /\ backups[n] = "stock"
       \/ plan.list = {} /\ plan.back \subseteq {n} /\ backups[n] = "none"
  /\ plan.at = "takeAway" =>
       /\ backups[n] = "none" /\ plan.list \subseteq {Twin(n)}
       /\ plan.back = {} => files[Twin(n)] = "none"
  /\ plan.at \in {"unload", "load"} /\ plan.action = "restore" =>
       backups[n] = "none" /\ (updates = "none" => index = n)

HomeAt(n) == HomeIs(n) /\ ListsKnown(n)

\* Which plan a step is of, and what is remembered of its reload.
PlanKnown ==
  /\ plan.at \in {"build", "switch", "list", "backUp", "install", "depmod"} => plan.action = "install"
  /\ plan.at \in {"clear", "putBack", "takeAway"} => plan.action = "restore"
  /\ plan.at # "idle" => plan.action # "none" /\ report = "none"
  /\ plan.at = "load" /\ plan.reload => loaded = "none"

\* DKMS has our module only while it knows ours: a restore that leaves it under updates/ is one
\* whose dkms remove was due, and failed or was declined.
DkmsKnown ==
  /\ updates = "ours" => registered
  /\ plan.at \in {"switch", "list", "backUp", "install"} /\ plan.strategy = "dkms" => registered

StockKnown == ~cutShort => (\E n \in Names : HomeAt(n)) /\ RestoreMeansStock

InstallerKnown == InstallerTypes /\ PlanKnown /\ DkmsKnown /\ StockKnown

LEMMA NoPlanKnown ==
  /\ NoPlan \in Plans
  /\ NoPlan.at = "idle" /\ NoPlan.action = "none" /\ NoPlan.back = {}
  BY DEF NoPlan, Plans, Strategies, Stages

LEMMA PlanTypeKept == InstallerTypes /\ InstallerNext => plan' \in Plans
<1> SUFFICES ASSUME InstallerTypes, InstallerNext
             PROVE  plan' \in Plans
  OBVIOUS
<1>1. plan \in Plans
  BY DEF InstallerTypes
<1>3. plan.list \in SUBSET Names /\ plan.copied \in SUBSET Names /\ plan.back \in SUBSET Names
  BY <1>1 DEF Plans
<1>4. Present \in SUBSET Names /\ Copies \in SUBSET Names /\ HoldsStock \in BOOLEAN
  BY DEF Present, Copies, HoldsStock
<1>5. Leftovers(plan.back) \in SUBSET Names
  BY <1>4 DEF Leftovers, Names
<1>6. ASSUME NEW action \in {"install", "restore"}, NEW strategy \in Strategies,
             BeginPlan(action, strategy)
      PROVE  plan' \in Plans
  BY <1>6 DEF BeginPlan, NoPlan, Plans, Stages
<1>7. ASSUME NEW n \in Names, BackUp(n) \/ BringBack(n) \/ TakeAway(n)
      PROVE  plan' \in Plans
  <2>1. \/ plan' \in {plan, NoPlan, [plan EXCEPT !.copied = @ \cup {n}],
                       [plan EXCEPT !.list = @ \ {n}]}
        \/ plan' = [plan EXCEPT !.list = @ \ {n}, !.back = @ \cup {n}]
    BY <1>7 DEF BackUp, BringBack, TakeAway, Fails
  <2>2. /\ plan.copied \cup {n} \in SUBSET Names /\ plan.back \cup {n} \in SUBSET Names
        /\ plan.list \ {n} \in SUBSET Names
    BY <1>3
  <2>3. [plan EXCEPT !.copied = @ \cup {n}] \in Plans
    BY <1>1, <2>2 DEF Plans
  <2>4. [plan EXCEPT !.list = @ \ {n}] \in Plans
    BY <1>1, <2>2 DEF Plans
  <2>5. [plan EXCEPT !.list = @ \ {n}, !.back = @ \cup {n}] \in Plans
    BY <1>1, <2>2 DEF Plans
  <2> QED
    BY <1>1, <2>1, <2>3, <2>4, <2>5, NoPlanKnown
<1>8. CASE Retire
  BY <1>1, <1>8 DEF Retire, GoesOn, Plans, Stages
<1>9. CASE BuildModule \/ Switch \/ BackedUp \/ Install
  BY <1>1, <1>9, NoPlanKnown
     DEF BuildModule, Switch, BackedUp, Install, GoesOn, Fails, Plans, Stages
<1>10. CASE ListModules \/ Clear \/ ListLeftovers
  BY <1>1, <1>4, <1>5, <1>10, NoPlanKnown
     DEF ListModules, Clear, ListLeftovers, Fails, Plans, Stages
<1>11. CASE Depmod \/ Unload \/ Load \/ Cut
  BY <1>1, <1>11, NoPlanKnown DEF Depmod, Unload, Load, Cut, GoesOn, Fails, Plans, Stages
<1> QED
  BY <1>6, <1>7, <1>8, <1>9, <1>10, <1>11 DEF InstallerNext, Strategies

LEMMA InstallerTypesKept == InstallerTypes /\ [InstallerNext]_installerVars => InstallerTypes'
<1> SUFFICES ASSUME InstallerTypes, InstallerNext
             PROVE  InstallerTypes'
  BY DEF InstallerTypes, installerVars
<1>1. plan' \in Plans
  BY PlanTypeKept
<1>2. files' \in [Names -> Modules] /\ backups' \in [Names -> Modules]
  BY DEF InstallerTypes, InstallerNext, Modules, disk, rest, BeginPlan, Retire, BuildModule, Switch,
         ListModules, BackUp, BackedUp, Install, Clear, BringBack, ListLeftovers, TakeAway, Depmod,
         Unload, Load, Cut
<1>3. updates' \in {"none", "ours"} /\ registered' \in BOOLEAN /\ hook' \in BOOLEAN
  BY DEF InstallerTypes, InstallerNext, disk, rest, BeginPlan, Retire, BuildModule, Switch,
         ListModules, BackUp, BackedUp, Install, Clear, BringBack, ListLeftovers, TakeAway, Depmod,
         Unload, Load, Cut
<1>4. index' \in Names \cup {"updates", "none"} /\ loaded' \in Modules
  BY DEF InstallerTypes, InstallerNext, Modules, Names, disk, rest, BeginPlan, Retire, BuildModule,
         Switch, ListModules, BackUp, BackedUp, Install, Clear, BringBack, ListLeftovers, TakeAway,
         Depmod, Found, Unload, Load, ModuleAt, Cut
<1>5. report' \in {"none", "installed", "restored", "failed"} /\ cutShort' \in BOOLEAN
  BY DEF InstallerTypes, InstallerNext, disk, rest, BeginPlan, Retire, BuildModule, Switch, Fails,
         ListModules, BackUp, BackedUp, Install, Clear, BringBack, ListLeftovers, TakeAway, Depmod,
         Unload, Load, Cut
<1> QED
  BY <1>1, <1>2, <1>3, <1>4, <1>5 DEF InstallerTypes

\* The ends of a plan, and what they leave.
LEMMA FailsKnown ==
  ASSUME Fails
  PROVE  plan'.at = "idle" /\ plan'.back = {} /\ report' = "failed"
  BY NoPlanKnown DEF Fails

LEMMA PlanKnownKept == InstallerTypes /\ PlanKnown /\ [InstallerNext]_installerVars => PlanKnown'
<1> SUFFICES ASSUME InstallerTypes, PlanKnown, InstallerNext
             PROVE  PlanKnown'
  BY DEF PlanKnown, installerVars
<1>1. plan \in Plans
  BY DEF InstallerTypes
<1>2. ASSUME NEW action \in {"install", "restore"}, NEW strategy \in Strategies,
             BeginPlan(action, strategy)
      PROVE  PlanKnown'
  BY <1>2 DEF BeginPlan, NoPlan, PlanKnown
<1>3. ASSUME NEW n \in Names, BackUp(n) \/ BringBack(n) \/ TakeAway(n)
      PROVE  PlanKnown'
  BY <1>1, <1>3, FailsKnown DEF BackUp, BringBack, TakeAway, PlanKnown, Plans, rest
<1>4. CASE Retire
  BY <1>1, <1>4 DEF Retire, GoesOn, PlanKnown, Plans, rest
<1>5. CASE BuildModule \/ Switch \/ BackedUp \/ Install
  BY <1>1, <1>5, FailsKnown DEF BuildModule, Switch, BackedUp, Install, GoesOn, PlanKnown, Plans, rest
<1>6. CASE ListModules \/ Clear \/ ListLeftovers
  BY <1>1, <1>6, FailsKnown DEF ListModules, Clear, ListLeftovers, PlanKnown, Plans, rest
<1>7. CASE Depmod \/ Unload \/ Load \/ Cut
  BY <1>1, <1>7, NoPlanKnown, FailsKnown DEF Depmod, Unload, Load, Cut, GoesOn, PlanKnown, Plans
<1> QED
  BY <1>2, <1>3, <1>4, <1>5, <1>6, <1>7 DEF InstallerNext, Strategies

LEMMA DkmsKnownKept ==
  InstallerTypes /\ PlanKnown /\ DkmsKnown /\ [InstallerNext]_installerVars => DkmsKnown'
<1> SUFFICES ASSUME InstallerTypes, PlanKnown, DkmsKnown, InstallerNext
             PROVE  DkmsKnown'
  BY DEF DkmsKnown, installerVars
<1>1. plan \in Plans /\ updates \in {"none", "ours"}
  BY DEF InstallerTypes
<1>2. ASSUME NEW action \in {"install", "restore"}, NEW strategy \in Strategies,
             BeginPlan(action, strategy)
      PROVE  DkmsKnown'
  BY <1>2 DEF BeginPlan, NoPlan, DkmsKnown, disk
<1>3. ASSUME NEW n \in Names, BackUp(n) \/ BringBack(n) \/ TakeAway(n)
      PROVE  DkmsKnown'
  BY <1>1, <1>3, FailsKnown DEF BackUp, BringBack, TakeAway, DkmsKnown, Plans
<1>4. CASE Retire
  BY <1>1, <1>4 DEF Retire, GoesOn, DkmsKnown, Plans
<1>5. CASE BuildModule \/ Switch
  BY <1>1, <1>5, FailsKnown DEF BuildModule, Switch, GoesOn, DkmsKnown, PlanKnown, Plans
<1>6. CASE BackedUp \/ Install
  BY <1>1, <1>6, FailsKnown DEF BackedUp, Install, GoesOn, DkmsKnown, PlanKnown, Plans
<1>7. CASE ListModules \/ Clear \/ ListLeftovers
  BY <1>1, <1>7, FailsKnown DEF ListModules, Clear, ListLeftovers, DkmsKnown, Plans, disk
<1>8. CASE Depmod \/ Unload \/ Load \/ Cut
  BY <1>1, <1>8, NoPlanKnown, FailsKnown
     DEF Depmod, Unload, Load, Cut, GoesOn, DkmsKnown, PlanKnown, Plans, disk
<1> QED
  BY <1>2, <1>3, <1>4, <1>5, <1>6, <1>7, <1>8 DEF InstallerNext, Strategies

LEMMA TwinsKnown ==
  ASSUME NEW n \in Names
  PROVE  Twin(n) \in Names /\ Twin(n) # n /\ Names = {n, Twin(n)}
  BY DEF Twin, Names

\* A plan that begins, is cut off or fails, in a step that leaves the modules where they are.
LEMMA PlanEndsHome ==
  ASSUME InstallerTypes, PlanKnown, NEW n \in Names, HomeAt(n), UNCHANGED <<files, backups>>,
         plan'.at \in {"idle", "retire"}, plan'.back = {}, plan'.copied = {},
         plan.at = "putBack" => plan.back = {}, plan.at # "takeAway"
  PROVE  HomeAt(n)'
  BY DEF HomeAt, HomeIs, ListsKnown

LEMMA BeginHome ==
  ASSUME InstallerTypes, PlanKnown, NEW n \in Names, HomeAt(n),
         NEW action \in {"install", "restore"}, NEW strategy \in Strategies,
         BeginPlan(action, strategy)
  PROVE  HomeAt(n)'
<1>1. plan'.at = "retire" /\ plan'.back = {} /\ plan'.copied = {} /\ UNCHANGED <<files, backups>>
  BY DEF BeginPlan, NoPlan, disk
<1> QED
  BY <1>1, PlanEndsHome DEF BeginPlan

LEMMA RetireHome ==
  ASSUME InstallerTypes, PlanKnown, NEW n \in Names, HomeAt(n), Retire
  PROVE  HomeAt(n)'
<1>1. plan \in Plans
  BY DEF InstallerTypes
<1>2. /\ plan'.at \in {"build", "clear"} /\ plan'.back = plan.back /\ plan'.copied = plan.copied
      /\ UNCHANGED <<files, backups>>
  BY <1>1 DEF Retire, GoesOn, Plans
<1> QED
  BY <1>2 DEF Retire, HomeAt, HomeIs, ListsKnown

LEMMA BuildHome ==
  ASSUME InstallerTypes, PlanKnown, NEW n \in Names, HomeAt(n), BuildModule \/ Switch
  PROVE  HomeAt(n)'
<1>1. plan \in Plans
  BY DEF InstallerTypes
<1>2. \/ plan'.at \in {"switch", "list"} /\ plan'.copied = plan.copied
      \/ plan'.at = "idle" /\ plan'.back = {}
  BY <1>1, FailsKnown DEF BuildModule, Switch, GoesOn, Plans
<1>3. plan.at \in {"build", "switch"} /\ UNCHANGED <<files, backups>>
  BY DEF BuildModule, Switch
<1> QED
  BY <1>2, <1>3 DEF HomeAt, HomeIs, ListsKnown

\* With no copy, the stock module alone is on the list.
LEMMA ListHome ==
  ASSUME InstallerTypes, PlanKnown, NEW n \in Names, HomeAt(n), ListModules
  PROVE  HomeAt(n)'
<1>1. plan \in Plans
  BY DEF InstallerTypes
<1>2. /\ plan'.at = "backUp" /\ plan'.list = Present /\ plan'.holdsStock = HoldsStock
      /\ plan'.copied = plan.copied /\ plan.at = "list" /\ UNCHANGED <<files, backups>>
  BY <1>1 DEF ListModules, Plans, disk
<1>3. HoldsStock <=> backups[n] = "none"
  BY TwinsKnown DEF HoldsStock, Copies, HomeAt, HomeIs
<1>4. backups[n] = "none" => Present = {n}
  BY <1>2, TwinsKnown DEF Present, HomeAt, HomeIs
<1> QED
  BY <1>2, <1>3, <1>4 DEF HomeAt, HomeIs, ListsKnown

\* The copy is made before what it was made of goes.
LEMMA BackUpHome ==
  ASSUME InstallerTypes, PlanKnown, NEW n \in Names, HomeAt(n), NEW m \in Names, BackUp(m)
  PROVE  HomeAt(n)'
<1>1. plan \in Plans /\ files \in [Names -> Modules] /\ backups \in [Names -> Modules]
  BY DEF InstallerTypes
<1>2. plan.at = "backUp" /\ m \in plan.list
  BY DEF BackUp
<1>3. CASE Fails /\ UNCHANGED <<files, backups>>
  BY <1>2, <1>3, FailsKnown DEF HomeAt, HomeIs, ListsKnown
<1>4. CASE /\ plan.holdsStock /\ m \notin plan.copied /\ backups' = [backups EXCEPT ![m] = files[m]]
           /\ plan' = [plan EXCEPT !.copied = @ \cup {m}] /\ UNCHANGED files
  <2>1. /\ plan'.at = "backUp" /\ plan'.list = plan.list /\ plan'.holdsStock = plan.holdsStock
        /\ plan'.copied = plan.copied \cup {m}
    BY <1>1, <1>2, <1>4 DEF Plans
  <2>2. m = n /\ plan.copied = {} /\ plan.list = {n} /\ files[n] = "stock"
    BY <1>2, <1>4 DEF HomeAt, HomeIs, ListsKnown
  <2>3. backups'[n] = "stock" /\ backups'[Twin(n)] = "none"
    BY <1>1, <1>4, <2>2, TwinsKnown DEF HomeAt, HomeIs
  <2> QED
    BY <1>4, <2>1, <2>2, <2>3 DEF HomeAt, HomeIs, ListsKnown
<1>5. CASE /\ ~plan.holdsStock \/ m \in plan.copied
           /\ files' = [files EXCEPT ![m] = "none"]
           /\ plan' = [plan EXCEPT !.list = @ \ {m}] /\ UNCHANGED backups
  <2>1. /\ plan'.at = "backUp" /\ plan'.list = plan.list \ {m} /\ plan'.holdsStock = plan.holdsStock
        /\ plan'.copied = plan.copied
    BY <1>1, <1>2, <1>5 DEF Plans
  <2>2. backups[n] = "stock"
    BY <1>2, <1>5 DEF HomeAt, ListsKnown
  <2> QED
    BY <1>2, <1>5, <2>1, <2>2 DEF HomeAt, HomeIs, ListsKnown
<1> QED
  BY <1>3, <1>4, <1>5 DEF BackUp

LEMMA InstallHome ==
  ASSUME InstallerTypes, PlanKnown, NEW n \in Names, HomeAt(n), BackedUp \/ Install
  PROVE  HomeAt(n)'
<1>1. plan \in Plans
  BY DEF InstallerTypes
<1>2. backups[n] = "stock" /\ plan.at \in {"backUp", "install"}
  BY DEF BackedUp, Install, HomeAt, ListsKnown
<1>3. \/ plan'.at \in {"install", "depmod"}
      \/ plan'.at = "idle" /\ plan'.back = {}
  BY <1>1, FailsKnown DEF BackedUp, Install, GoesOn, Plans
<1>4. UNCHANGED backups
  BY DEF BackedUp, Install
<1> QED
  BY <1>2, <1>3, <1>4 DEF HomeAt, HomeIs, ListsKnown

LEMMA ClearHome ==
  ASSUME InstallerTypes, PlanKnown, NEW n \in Names, HomeAt(n), Clear
  PROVE  HomeAt(n)'
<1>1. plan \in Plans /\ plan.at = "clear" /\ UNCHANGED <<files, backups>>
  BY DEF InstallerTypes, Clear
<1>2. CASE Fails
  BY <1>1, <1>2, FailsKnown DEF HomeAt, HomeIs, ListsKnown
<1>3. CASE plan' = [plan EXCEPT !.at = "putBack", !.list = Copies]
  <2>1. plan'.at = "putBack" /\ plan'.list = Copies /\ plan'.back = {}
    BY <1>1, <1>3 DEF Plans, HomeAt, ListsKnown
  <2>2. backups[n] = "none" => Copies = {}
    BY TwinsKnown DEF Copies, HomeAt, HomeIs
  <2>3. backups[n] # "none" => Copies = {n} /\ backups[n] = "stock"
    BY TwinsKnown DEF Copies, HomeAt, HomeIs
  <2> QED
    BY <1>1, <2>1, <2>2, <2>3 DEF HomeAt, HomeIs, ListsKnown
<1> QED
  BY <1>2, <1>3 DEF Clear

LEMMA BringHome ==
  ASSUME InstallerTypes, PlanKnown, NEW n \in Names, HomeAt(n), NEW m \in Names, BringBack(m)
  PROVE  HomeAt(n)'
<1>1. plan \in Plans /\ files \in [Names -> Modules] /\ backups \in [Names -> Modules]
  BY DEF InstallerTypes
<1>2. /\ plan.at = "putBack" /\ m = n /\ plan.list = {n} /\ plan.back = {}
      /\ backups[n] = "stock" /\ backups[Twin(n)] = "none"
  BY DEF BringBack, HomeAt, HomeIs, ListsKnown
<1>3. CASE Fails /\ UNCHANGED <<files, backups>>
  BY <1>2, <1>3, FailsKnown DEF HomeAt, HomeIs, ListsKnown
<1>4. CASE /\ files' = [files EXCEPT ![m] = backups[m]]
           /\ backups' = [backups EXCEPT ![m] = "none"]
           /\ plan' = [plan EXCEPT !.list = @ \ {m}, !.back = @ \cup {m}]
  <2>1. plan'.at = "putBack" /\ plan'.list = {} /\ plan'.back = {n}
    BY <1>1, <1>2, <1>4 DEF Plans
  <2>2. files'[n] = "stock" /\ backups'[n] = "none" /\ backups'[Twin(n)] = "none"
    BY <1>1, <1>2, <1>4, TwinsKnown
  <2> QED
    BY <2>1, <2>2 DEF HomeAt, HomeIs, ListsKnown
<1> QED
  BY <1>3, <1>4 DEF BringBack

\* What is under the other name is on the list of what goes.
LEMMA LeftoversHome ==
  ASSUME InstallerTypes, PlanKnown, NEW n \in Names, HomeAt(n), ListLeftovers
  PROVE  HomeAt(n)'
<1>1. plan \in Plans /\ plan.at = "putBack" /\ plan.list = {} /\ UNCHANGED <<files, backups>>
  BY DEF InstallerTypes, ListLeftovers, disk
<1>2. plan'.at = "takeAway" /\ plan'.list = Leftovers(plan.back) /\ plan'.back = plan.back
  BY <1>1 DEF ListLeftovers, Plans
<1>3. backups[n] = "none" /\ files[n] = "stock" /\ plan.back \subseteq {n}
  BY <1>1 DEF HomeAt, HomeIs, ListsKnown
<1>4. CASE files[Twin(n)] = "none"
  <2>1. Present = {n}
    BY <1>3, <1>4, TwinsKnown DEF Present
  <2>2. Leftovers(plan.back) = {}
    BY <2>1, FS_Singleton DEF Leftovers
  <2> QED
    BY <1>1, <1>2, <1>3, <1>4, <2>2 DEF HomeAt, HomeIs, ListsKnown
<1>5. CASE files[Twin(n)] # "none"
  <2>1. Present = {n, Twin(n)} /\ plan.back = {n}
    BY <1>1, <1>3, <1>5, TwinsKnown DEF Present, HomeAt, HomeIs
  <2>2. Cardinality(Present) = 2
    <3>1. Twin(n) \notin {n} /\ Present = {n} \cup {Twin(n)}
      BY <2>1, TwinsKnown
    <3>2. IsFiniteSet({n}) /\ Cardinality({n}) = 1
      BY FS_Singleton
    <3> QED
      BY <3>1, <3>2, FS_AddElement
  <2>3. Leftovers(plan.back) = {Twin(n)}
    BY <2>1, <2>2, TwinsKnown DEF Leftovers
  <2> QED
    BY <1>1, <1>2, <1>3, <2>1, <2>3 DEF HomeAt, HomeIs, ListsKnown
<1> QED
  BY <1>4, <1>5

LEMMA TakeAwayHome ==
  ASSUME InstallerTypes, PlanKnown, NEW n \in Names, HomeAt(n), NEW m \in Names, TakeAway(m),
         ~cutShort'
  PROVE  HomeAt(n)'
<1>1. plan \in Plans /\ files \in [Names -> Modules]
  BY DEF InstallerTypes
<1>2. plan.at = "takeAway" /\ m = Twin(n) /\ backups[n] = "none" /\ files[n] = "stock"
  BY DEF TakeAway, HomeAt, HomeIs, ListsKnown
<1>3. /\ files' = [files EXCEPT ![m] = "none"] /\ UNCHANGED backups
      /\ plan' = [plan EXCEPT !.list = @ \ {m}]
  BY DEF TakeAway
<1>4. plan'.at = "takeAway" /\ plan'.list = plan.list \ {m} /\ plan'.back = plan.back
  BY <1>1, <1>2, <1>3 DEF Plans
<1>5. files'[n] = "stock" /\ files'[Twin(n)] = "none"
  BY <1>1, <1>2, <1>3, TwinsKnown
<1> QED
  BY <1>2, <1>3, <1>4, <1>5 DEF HomeAt, HomeIs, ListsKnown

\* What a restore has depmod find is the stock module, unless DKMS has kept ours.
LEMMA DepmodHome ==
  ASSUME InstallerTypes, PlanKnown, NEW n \in Names, HomeAt(n), Depmod
  PROVE  HomeAt(n)'
<1>1. plan \in Plans /\ UNCHANGED <<files, backups, updates>>
  BY DEF InstallerTypes, Depmod, disk
<1>2. plan.at = "depmod" \/ (plan.at = "takeAway" /\ plan.list = {})
  BY DEF Depmod
<1>3. CASE Fails
  BY <1>1, <1>2, <1>3, FailsKnown DEF HomeAt, HomeIs, ListsKnown
<1>4. CASE index' = Found /\ GoesOn("unload")
  <2>1. plan'.at = "unload" /\ plan'.action = plan.action
    BY <1>1, <1>4 DEF GoesOn, Plans
  <2>2. CASE plan.at = "depmod"
    BY <1>1, <2>1, <2>2 DEF PlanKnown, HomeAt, HomeIs, ListsKnown
  <2>3. CASE plan.at = "takeAway" /\ plan.list = {}
    <3>1. backups[n] = "none" /\ files[n] = "stock" /\ files[Twin(n)] = "none"
      BY <2>3 DEF HomeAt, HomeIs, ListsKnown
    <3>2. updates = "none" => Found = n
      BY <3>1, TwinsKnown DEF Found, Twin, Names
    <3> QED
      BY <1>1, <1>4, <2>1, <3>1, <3>2 DEF HomeAt, HomeIs, ListsKnown
  <2> QED
    BY <1>2, <2>2, <2>3
<1> QED
  BY <1>3, <1>4 DEF Depmod

LEMMA LoadHome ==
  ASSUME InstallerTypes, PlanKnown, NEW n \in Names, HomeAt(n), Unload \/ Load
  PROVE  HomeAt(n)'
<1>1. plan \in Plans /\ plan.at \in {"unload", "load"} /\ UNCHANGED <<files, backups, updates, index>>
  BY DEF InstallerTypes, Unload, Load, disk
<1>2. \/ plan'.at = "idle" /\ plan'.back = {}
      \/ plan'.at = "load" /\ plan'.action = plan.action
  BY <1>1, FailsKnown, NoPlanKnown DEF Unload, Load, GoesOn, Plans
<1> QED
  BY <1>1, <1>2 DEF HomeAt, HomeIs, ListsKnown

LEMMA CutHome ==
  ASSUME InstallerTypes, PlanKnown, NEW n \in Names, HomeAt(n), Cut, ~cutShort'
  PROVE  HomeAt(n)'
<1>1. plan'.at = "idle" /\ plan'.back = {} /\ UNCHANGED <<files, backups>>
  BY NoPlanKnown DEF Cut, disk
<1>2. plan.at \in {"putBack", "takeAway"} => plan.back = {}
  BY DEF Cut
<1> QED
  BY <1>1, <1>2 DEF HomeAt, HomeIs, ListsKnown

LEMMA InstallerKnownAtFirst == InstallerInit => InstallerKnown
<1> SUFFICES ASSUME InstallerInit PROVE InstallerKnown
  OBVIOUS
<1>1. PICK n \in Names : files = [m \in Names |-> IF m = n THEN "stock" ELSE "none"] /\ index = n
  BY DEF InstallerInit
<1>2. InstallerTypes
  BY <1>1, NoPlanKnown DEF InstallerInit, InstallerTypes, Modules
<1>3. PlanKnown /\ DkmsKnown
  BY NoPlanKnown DEF InstallerInit, PlanKnown, DkmsKnown
<1>4. files[n] = "stock" /\ files[Twin(n)] = "none" /\ backups[n] = "none" /\ backups[Twin(n)] = "none"
  BY <1>1, TwinsKnown DEF InstallerInit
<1>5. HomeAt(n)
  BY <1>4, NoPlanKnown DEF InstallerInit, HomeAt, HomeIs, ListsKnown
<1> QED
  BY <1>2, <1>3, <1>5 DEF InstallerInit, InstallerKnown, StockKnown, RestoreMeansStock

\* The module that was unloaded comes from where depmod found one.
LEMMA ReportKept ==
  ASSUME InstallerTypes, PlanKnown, RestoreMeansStock, NEW n \in Names, HomeAt(n), InstallerNext,
         ~cutShort, ~cutShort'
  PROVE  RestoreMeansStock'
<1>1. plan \in Plans
  BY DEF InstallerTypes
<1>2. CASE Load
  <2>1. CASE Fails
    BY <2>1, FailsKnown DEF RestoreMeansStock
  <2>2. CASE /\ loaded' = IF loaded # "none" THEN loaded ELSE ModuleAt(index)
             /\ report' = IF ~plan.reload THEN "failed"
                          ELSE IF plan.action = "install" THEN "installed" ELSE "restored"
    <3> SUFFICES ASSUME report' = "restored", updates' = "none" PROVE loaded' = "stock"
      BY DEF RestoreMeansStock
    <3>1. plan.at = "load" /\ plan.reload /\ plan.action # "install" /\ updates = "none"
      BY <1>2, <2>2 DEF Load, disk
    <3>2. loaded = "none" /\ plan.action = "restore"
      BY <1>1, <3>1 DEF PlanKnown, Plans
    <3>3. backups[n] = "none" /\ index = n /\ files[n] = "stock"
      BY <3>1, <3>2 DEF HomeAt, HomeIs, ListsKnown
    <3>4. ModuleAt(index) = "stock"
      BY <3>3 DEF ModuleAt, Names
    <3> QED
      BY <2>2, <3>2, <3>4
  <2> QED
    BY <1>2, <2>1, <2>2 DEF Load
<1>3. CASE Unload
  BY <1>3 DEF Unload, PlanKnown, RestoreMeansStock
<1>4. CASE ~Load /\ ~Unload
  <2>1. report' \in {"none", "failed"} \/ (plan.at # "idle" /\ UNCHANGED report)
    BY <1>4 DEF InstallerNext, BeginPlan, Retire, BuildModule, Switch, ListModules, BackUp, BackedUp,
                Install, Clear, BringBack, ListLeftovers, TakeAway, Depmod, Cut, Fails
  <2> QED
    BY <2>1 DEF PlanKnown, RestoreMeansStock
<1> QED
  BY <1>2, <1>3, <1>4

LEMMA InstallerKnownKept == InstallerKnown /\ [InstallerNext]_installerVars => InstallerKnown'
<1> SUFFICES ASSUME InstallerKnown, [InstallerNext]_installerVars
             PROVE  InstallerKnown'
  OBVIOUS
<1>1. InstallerTypes' /\ PlanKnown' /\ DkmsKnown'
  BY InstallerTypesKept, PlanKnownKept, DkmsKnownKept DEF InstallerKnown
<1>2. StockKnown'
  <2>1. CASE UNCHANGED installerVars
    BY <2>1 DEF installerVars, InstallerKnown, StockKnown, HomeAt, HomeIs, ListsKnown, RestoreMeansStock
  <2>2. CASE InstallerNext
    <3> SUFFICES ASSUME ~cutShort' PROVE (\E n \in Names : HomeAt(n)') /\ RestoreMeansStock'
      BY DEF StockKnown
    <3>1. ~cutShort
      BY <2>2 DEF InstallerNext, BeginPlan, Retire, BuildModule, Switch, ListModules, BackUp, BackedUp,
                  Install, Clear, BringBack, ListLeftovers, TakeAway, Depmod, Unload, Load, Cut
    <3>2. PICK n \in Names : HomeAt(n)
      BY <3>1 DEF InstallerKnown, StockKnown
    <3>3. HomeAt(n)'
      BY <2>2, <3>2, BeginHome, RetireHome, BuildHome, ListHome, BackUpHome, InstallHome, ClearHome,
         BringHome, LeftoversHome, TakeAwayHome, DepmodHome, LoadHome, CutHome
         DEF InstallerKnown, InstallerNext, Strategies
    <3> QED
      BY <2>2, <3>1, <3>2, <3>3, ReportKept DEF InstallerKnown, StockKnown
  <2> QED
    BY <2>1, <2>2
<1> QED
  BY <1>1, <1>2 DEF InstallerKnown

\* However installs and restores followed each other, failed or were cut off: a restore that
\* reports success has the distribution's own module running, unless an earlier one was cut off
\* between its two halves or this one has left DKMS's module under updates/ (backup_in,
\* restore_in, leftovers).
THEOREM RestoreAlwaysMeansStock == InstallerSpec => []RestoreMeansStock
<1>1. InstallerKnown => RestoreMeansStock
  BY DEF InstallerKnown, StockKnown, RestoreMeansStock
<1> QED
  BY <1>1, InstallerKnownAtFirst, InstallerKnownKept, PTL DEF InstallerSpec

(***************************************************************************)
(* The event bus and its reader.                                            *)
(***************************************************************************)

\* The ring holds the last events, one after the other, from the one after the last evicted.
RingKnown ==
  /\ oldest <= latest /\ Len(ring) = latest - oldest
  /\ \A i \in 1..Len(ring) : ring[i].seq = oldest + i

\* Each event was published, and is announced once.
NumbersKnown ==
  /\ IsFiniteSet(unsaid) /\ latest + Cardinality(unsaid) <= published
  /\ daemon.generation <= published
  /\ ~serving => unsaid = {} /\ daemons < MaxDaemons

BusKnown == BusTypes /\ RingKnown /\ NumbersKnown

\* The events since the reader began are those it heard and those it lost.
HeardKnown ==
  poller.since # NoSeq =>
    /\ stream.from <= poller.since
    /\ stream.heard \subseteq stream.from + 1 .. poller.since
    /\ Cardinality(stream.heard) + stream.lost = poller.since - stream.from

\* The reader holds an answer that it has not taken its number from.
Holding ==
  poller.at \in {"answer", "adopt"} \/ (poller.at \in {"look", "tell"} /\ poller.then = "adopt")

\* An answer goes on where the reader stopped: first what was missed, then every event.
BatchKnown ==
  /\ poller.at = "wait" \/ Holding => poller.since # NoSeq
  /\ Holding /\ poller.since <= batch.seq =>
       /\ poller.since + batch.missed <= batch.seq
       /\ {e.seq : e \in batch.events} = poller.since + batch.missed + 1 .. batch.seq
  /\ poller.at = "tell" => glance.update \in Updates

ReaderKnown == ReaderTypes /\ HeardKnown /\ BatchKnown

WidgetKnown == WidgetTypes /\ (clicker.at # "idle" => clicker.update \in Updates)

EventsKnown == BusKnown /\ ReaderKnown /\ WidgetKnown

LEMMA SeqsKnown ==
  /\ MaxPublished \in Nat /\ MaxDaemons \in Nat /\ Capacity \in Nat \ {0}
  /\ NoSeq \notin Seqs /\ 0 \in Seqs /\ Seqs \subseteq Nat /\ 0 \in 0..MaxDaemons
  /\ \A n \in Nat : n <= MaxPublished => n \in Seqs
  BY EventsAssumption DEF NoSeq, Seqs

LEMMA UpdatesKnown ==
  /\ Other \in Announced /\ Other.mode = 0 /\ Other.generation = 0
  /\ [mode : Shown, generation : Seqs] \subseteq Updates
  /\ [mode : Shown, generation : Seqs] \subseteq Announced
  BY DEF Other, Announced, Updates

LEMMA EventsKnownAtFirst == EventsInit => EventsKnown
<1> SUFFICES ASSUME EventsInit PROVE EventsKnown
  OBVIOUS
<1> USE SeqsKnown
<1>1. /\ daemon \in [mode : Shown, generation : Seqs] /\ daemon.generation = 0
      /\ widget \in [mode : Shown, last : Seqs \cup {NoSeq}]
  BY DEF EventsInit
<1>2. ring \in Seq(Entry) /\ Len(ring) = 0
  BY DEF EventsInit
<1>3. BusTypes
  BY <1>1, <1>2 DEF EventsInit, BusTypes
<1>4. RingKnown
  BY <1>2 DEF EventsInit, RingKnown
<1>5. NumbersKnown
  BY <1>1, FS_EmptySet DEF EventsInit, NumbersKnown
<1>6. ReaderTypes
  BY DEF EventsInit, ReaderTypes, NoBatch, NoGlance
<1>7. HeardKnown /\ BatchKnown
  BY DEF EventsInit, HeardKnown, BatchKnown, Holding
<1>8. WidgetKnown
  BY <1>1 DEF EventsInit, WidgetKnown, WidgetTypes, Idling
<1> QED
  BY <1>3, <1>4, <1>5, <1>6, <1>7, <1>8 DEF EventsKnown, BusKnown, ReaderKnown

(* The bus.                                                                 *)

LEMMA BusAlone ==
  ASSUME BusKnown, UNCHANGED <<serving, daemon, unsaid, latest, oldest, ring, daemons, published>>
  PROVE  BusKnown'
  BY DEF BusKnown, BusTypes, RingKnown, NumbersKnown

LEMMA UnsaidGrows ==
  ASSUME BusKnown, NEW what, unsaid' = unsaid \cup {what}
  PROVE  /\ IsFiniteSet(unsaid') /\ Cardinality(unsaid') <= Cardinality(unsaid) + 1
         /\ Cardinality(unsaid) \in Nat /\ Cardinality(unsaid') \in Nat
<1>1. IsFiniteSet(unsaid)
  BY DEF BusKnown, NumbersKnown
<1> QED
  BY <1>1, FS_AddElement, FS_CardinalityType

LEMMA MoveKnown ==
  ASSUME BusKnown, NEW m \in Shown, Move(m), UNCHANGED <<serving, latest, oldest, ring, daemons>>
  PROVE  BusKnown' /\ daemon' \in Updates
<1> USE SeqsKnown
<1>1. /\ published \in Nat /\ published' = published + 1 /\ published' \in Seqs
      /\ daemon.generation \in Nat /\ daemon.generation <= published /\ serving
  BY DEF Move, BusKnown, BusTypes, NumbersKnown, Seqs
<1>2. /\ daemon' \in [mode : Shown, generation : Seqs]
      /\ daemon'.generation = daemon.generation + 1
  BY <1>1 DEF Move
<1>3. unsaid' = unsaid \cup {daemon'}
  BY DEF Move
<1>4. /\ IsFiniteSet(unsaid') /\ Cardinality(unsaid') <= Cardinality(unsaid) + 1
      /\ Cardinality(unsaid) \in Nat /\ Cardinality(unsaid') \in Nat
  BY <1>3, UnsaidGrows
<1>5. BusTypes'
  BY <1>1, <1>2, <1>3, UpdatesKnown DEF BusKnown, BusTypes
<1>6. RingKnown'
  BY DEF BusKnown, RingKnown
<1>7. NumbersKnown'
  BY <1>1, <1>2, <1>4 DEF BusKnown, BusTypes, NumbersKnown
<1> QED
  BY <1>2, <1>5, <1>6, <1>7, UpdatesKnown DEF BusKnown

LEMMA HappenKnown == ASSUME BusKnown, Happen PROVE BusKnown'
<1> USE SeqsKnown
<1>1. /\ published \in Nat /\ published' = published + 1 /\ published' \in Seqs /\ serving
      /\ unsaid' = unsaid \cup {Other}
      /\ UNCHANGED <<serving, daemon, latest, oldest, ring, daemons>>
  BY DEF Happen, busVars, BusKnown, BusTypes, Seqs
<1>2. /\ IsFiniteSet(unsaid') /\ Cardinality(unsaid') <= Cardinality(unsaid) + 1
      /\ Cardinality(unsaid) \in Nat /\ Cardinality(unsaid') \in Nat
  BY <1>1, UnsaidGrows
<1>3. BusTypes'
  BY <1>1, UpdatesKnown DEF BusKnown, BusTypes
<1>4. RingKnown'
  BY <1>1 DEF BusKnown, RingKnown
<1>5. NumbersKnown'
  <2>1. latest \in Nat /\ daemon.generation \in Nat
    BY DEF BusKnown, BusTypes
  <2> QED
    BY <1>1, <1>2, <2>1 DEF BusKnown, NumbersKnown
<1> QED
  BY <1>3, <1>4, <1>5 DEF BusKnown

LEMMA PublishKnown == ASSUME BusKnown, NEW what \in unsaid, Publish(what) PROVE BusKnown'
<1> USE SeqsKnown
<1> DEFINE entry == [seq |-> latest + 1, mode |-> what.mode, generation |-> what.generation]
           events == Append(ring, entry)
<1>1. /\ unsaid' = unsaid \ {what} /\ latest' = latest + 1 /\ serving
      /\ UNCHANGED <<serving, daemon, daemons, published>>
  BY DEF Publish
<1>2. /\ IsFiniteSet(unsaid') /\ Cardinality(unsaid') = Cardinality(unsaid) - 1
      /\ Cardinality(unsaid) \in Nat /\ Cardinality(unsaid') \in Nat
  BY <1>1, FS_RemoveElement, FS_CardinalityType DEF BusKnown, NumbersKnown
<1>3. latest \in Nat /\ oldest \in Nat /\ published \in Nat /\ published <= MaxPublished
  BY DEF BusKnown, BusTypes, Seqs
<1>4. latest' \in Seqs
  BY <1>1, <1>2, <1>3 DEF BusKnown, NumbersKnown
<1>5. entry \in Entry /\ entry.seq = latest + 1
  <2>1. what.mode \in Shown \cup {0} /\ what.generation \in Seqs
    BY UpdatesKnown DEF BusKnown, BusTypes, Announced
  <2> QED
    BY <1>1, <1>4, <2>1 DEF Entry
<1> HIDE DEF entry
<1>6. /\ events \in Seq(Entry) /\ Len(events) = Len(ring) + 1 /\ Len(ring) \in Nat
      /\ \A i \in 1..Len(ring) : events[i] = ring[i]
      /\ events[Len(ring) + 1] = entry
  BY <1>5, AppendProperties, LenProperties DEF BusKnown, BusTypes
<1> HIDE DEF events
<1>7. Len(ring) = latest - oldest /\ \A i \in 1..Len(ring) : ring[i].seq = oldest + i
  BY DEF BusKnown, RingKnown
<1>8. \A i \in 1..Len(events) : events[i].seq = oldest + i
  <2> SUFFICES ASSUME NEW i \in 1..Len(events) PROVE events[i].seq = oldest + i
    OBVIOUS
  <2>1. CASE i \in 1..Len(ring)
    BY <1>6, <1>7, <2>1
  <2>2. CASE i = Len(ring) + 1
    BY <1>3, <1>5, <1>6, <1>7, <2>2
  <2> QED
    BY <1>6, <2>1, <2>2
<1>9. NumbersKnown'
  BY <1>1, <1>2, <1>3 DEF BusKnown, NumbersKnown
<1>10. unsaid' \subseteq Announced
  BY <1>1 DEF BusKnown, BusTypes
<1>11. CASE Len(events) > Capacity
  <2>1. ring' = Tail(events) /\ oldest' = events[1].seq
    BY <1>11 DEF Publish, Evict, events, entry
  <2>2. Len(events) > 1 /\ Len(ring) <= Capacity
    BY <1>6, <1>11 DEF BusKnown, BusTypes
  <2>3. oldest' = oldest + 1
    BY <1>6, <1>8, <2>1, <2>2
  <2>4. /\ ring' \in Seq(Entry) /\ Len(ring') = Len(ring)
        /\ \A i \in 1..Len(ring') : ring'[i] = events[i + 1]
    BY <1>6, <2>1, <2>2, HeadTailProperties, EmptySeq
  <2>5. \A i \in 1..Len(ring') : ring'[i].seq = oldest' + i
    BY <1>3, <1>6, <1>8, <2>3, <2>4
  <2>6. oldest' <= latest' /\ Len(ring') = latest' - oldest' /\ oldest' \in Seqs
    BY <1>1, <1>3, <1>4, <1>6, <1>7, <2>2, <2>3, <2>4 DEF Seqs
  <2>7. BusTypes'
    BY <1>1, <1>4, <1>10, <2>2, <2>4, <2>6 DEF BusKnown, BusTypes
  <2> QED
    BY <1>9, <2>5, <2>6, <2>7 DEF BusKnown, RingKnown
<1>12. CASE ~(Len(events) > Capacity)
  <2>1. ring' = events /\ oldest' = oldest
    BY <1>12 DEF Publish, events, entry
  <2>2. oldest' <= latest' /\ Len(ring') = latest' - oldest'
    BY <1>1, <1>3, <1>6, <1>7, <2>1 DEF BusKnown, RingKnown
  <2>3. BusTypes'
    BY <1>1, <1>4, <1>6, <1>10, <1>12, <2>1 DEF BusKnown, BusTypes
  <2> QED
    BY <1>8, <1>9, <2>1, <2>2, <2>3 DEF BusKnown, RingKnown
<1> QED
  BY <1>11, <1>12

LEMMA DaemonEndsKnown == ASSUME BusKnown, EndDaemon \/ BeginDaemon PROVE BusKnown'
<1> USE SeqsKnown
<1>1. CASE EndDaemon
  <2>1. /\ unsaid' = {} /\ daemons < MaxDaemons /\ serving' = FALSE
        /\ UNCHANGED <<daemon, latest, oldest, ring, daemons, published>>
    BY <1>1 DEF EndDaemon, busVars
  <2>2. Cardinality(unsaid) \in Nat
    BY FS_CardinalityType DEF BusKnown, NumbersKnown
  <2>3. latest \in Nat /\ published \in Nat
    BY DEF BusKnown, BusTypes
  <2>4. BusTypes' /\ RingKnown'
    BY <2>1 DEF BusKnown, BusTypes, RingKnown
  <2>5. NumbersKnown'
    BY <2>1, <2>2, <2>3, FS_EmptySet DEF BusKnown, NumbersKnown
  <2> QED
    BY <2>4, <2>5 DEF BusKnown
<1>2. CASE BeginDaemon
  <2>1. /\ daemon' \in [mode : Shown, generation : Seqs] /\ daemon'.generation = 0
        /\ latest' = 0 /\ oldest' = 0 /\ ring' = <<>> /\ serving' = TRUE
        /\ daemons' = daemons + 1 /\ unsaid = {} /\ UNCHANGED <<unsaid, published>>
    BY <1>2 DEF BeginDaemon, BusKnown, NumbersKnown
  <2>2. ring' \in Seq(Entry) /\ Len(ring') = 0
    BY <2>1
  <2>3. daemons' \in 0..MaxDaemons
    BY <1>2, <2>1 DEF BeginDaemon, BusKnown, BusTypes, NumbersKnown
  <2>4. BusTypes'
    BY <2>1, <2>2, <2>3 DEF BusKnown, BusTypes
  <2>5. RingKnown'
    BY <2>1, <2>2 DEF RingKnown
  <2>6. NumbersKnown'
    BY <2>1, FS_EmptySet DEF BusKnown, BusTypes, NumbersKnown
  <2> QED
    BY <2>4, <2>5, <2>6 DEF BusKnown
<1> QED
  BY <1>1, <1>2

(* The reader.                                                              *)

\* What an answer says of the ring: the events since then, less those that were evicted.
LEMMA BatchSpan ==
  ASSUME BusKnown, NEW since \in Seqs, since < latest
  PROVE  LET b == BatchSince(since)
         IN  /\ b \in [life : 0..MaxDaemons, seq : Seqs, events : SUBSET Entry, missed : Seqs]
             /\ b.seq = latest /\ since + b.missed <= b.seq
             /\ {e.seq : e \in b.events} = since + b.missed + 1 .. b.seq
<1> DEFINE b == BatchSince(since)
<1> USE SeqsKnown
<1>1. /\ latest \in Nat /\ oldest \in Nat /\ since \in Nat /\ oldest <= latest
      /\ latest \in Seqs /\ oldest <= MaxPublished
  BY DEF BusKnown, BusTypes, RingKnown, Seqs
<1>2. /\ Len(ring) \in Nat /\ DOMAIN ring = 1..Len(ring) /\ \A i \in 1..Len(ring) : ring[i] \in Entry
      /\ Len(ring) = latest - oldest /\ \A i \in 1..Len(ring) : ring[i].seq = oldest + i
  BY LenProperties, ElementOfSeq DEF BusKnown, BusTypes, RingKnown
<1>3. /\ b.life = daemons /\ b.seq = latest /\ b.events = {e \in Range(ring) : e.seq > since}
      /\ b.missed = IF oldest > since THEN oldest - since ELSE 0
  BY DEF BatchSince
<1>4. b.events \subseteq Entry
  BY <1>2, <1>3 DEF Range
<1>5. b.missed \in Nat /\ b.missed <= MaxPublished /\ since + b.missed <= latest
  BY <1>1, <1>3
<1>6. b \in [life : 0..MaxDaemons, seq : Seqs, events : SUBSET Entry, missed : Seqs]
  <2>1. daemons \in 0..MaxDaemons /\ b.missed \in Seqs
    BY <1>5 DEF BusKnown, BusTypes
  <2> QED
    BY <1>1, <1>3, <1>4, <2>1 DEF BatchSince
<1>7. \A n : n \in {e.seq : e \in b.events} <=> n \in since + b.missed + 1 .. latest
  <2>1. ASSUME NEW e \in b.events PROVE e.seq \in since + b.missed + 1 .. latest
    <3>1. PICK i \in 1..Len(ring) : e = ring[i]
      BY <1>2, <1>3 DEF Range
    <3>2. e.seq = oldest + i /\ e.seq > since
      BY <1>2, <1>3, <3>1
    <3> QED
      BY <1>1, <1>2, <1>3, <3>2
  <2>2. ASSUME NEW n \in since + b.missed + 1 .. latest PROVE \E e \in b.events : n = e.seq
    <3> DEFINE i == n - oldest
    <3>1. i \in 1..Len(ring) /\ n > since /\ n = oldest + i
      BY <1>1, <1>2, <1>3
    <3>2. ring[i].seq = n /\ ring[i] \in Range(ring)
      BY <1>2, <3>1 DEF Range
    <3> QED
      BY <1>3, <3>1, <3>2
  <2> HIDE DEF b
  <2> QED
    BY <2>1, <2>2
<1>8. {e.seq : e \in b.events} = since + b.missed + 1 .. b.seq
  BY <1>3, <1>7
<1> QED
  BY <1>3, <1>5, <1>6, <1>8

\* The reader's next number: the numbers it skips are the ones it counts.
LEMMA HeardGrows ==
  /\ stream.from \in Nat /\ poller.since \in Nat /\ batch.seq \in Nat
  /\ stream.lost \in Nat /\ batch.missed \in Nat
  /\ stream.heard \subseteq stream.from + 1 .. poller.since /\ stream.from <= poller.since
  /\ Cardinality(stream.heard) + stream.lost = poller.since - stream.from
  /\ poller.since + batch.missed <= batch.seq
  => LET more == stream.heard \cup (poller.since + batch.missed + 1 .. batch.seq)
     IN  /\ more \subseteq stream.from + 1 .. batch.seq
         /\ Cardinality(more) + (stream.lost + batch.missed) = batch.seq - stream.from
<1> DEFINE from == stream.from  since == poller.since  seq == batch.seq  lost == stream.lost
           missed == batch.missed  told == stream.heard
<1>0. SUFFICES ASSUME /\ from \in Nat /\ since \in Nat /\ seq \in Nat /\ lost \in Nat /\ missed \in Nat
                      /\ told \subseteq from + 1 .. since /\ from <= since
                      /\ Cardinality(told) + lost = since - from /\ since + missed <= seq
               PROVE  /\ told \cup (since + missed + 1 .. seq) \subseteq from + 1 .. seq
                      /\ Cardinality(told \cup (since + missed + 1 .. seq)) + (lost + missed) = seq - from
  OBVIOUS
<1> HIDE DEF from, since, seq, lost, missed, told
<1> DEFINE new == since + missed + 1 .. seq
<1>1. IsFiniteSet(from + 1 .. since) /\ told \in SUBSET (from + 1 .. since)
  BY <1>0, FS_Interval
<1>2. IsFiniteSet(told) /\ Cardinality(told) \in Nat
  BY <1>1, FS_Subset, FS_CardinalityType
<1>3. IsFiniteSet(new) /\ Cardinality(new) = seq - since - missed
  <2>1. since + missed + 1 \in Int /\ seq \in Int
    BY <1>0
  <2>2. IsFiniteSet(new) /\ Cardinality(new) = IF since + missed + 1 > seq THEN 0 ELSE seq - (since + missed + 1) + 1
    BY <2>1, FS_Interval
  <2> QED
    BY <1>0, <2>2
<1>4. told \cap new = {}
  BY <1>0
<1>5. Cardinality(told \cup new) = Cardinality(told) + Cardinality(new) - Cardinality(told \cap new)
  BY <1>2, <1>3, FS_Union
<1>6. Cardinality(told \cap new) = 0
  BY <1>4, FS_EmptySet
<1>7. Cardinality(told \cup new) + (lost + missed) = seq - from
  BY <1>0, <1>2, <1>3, <1>5, <1>6
<1>8. told \cup new \subseteq from + 1 .. seq
  BY <1>0
<1> QED
  BY <1>7, <1>8

LEMMA ShowKnown ==
  ASSUME WidgetTypes, NEW update \in Updates, NEW whose \in 0..MaxDaemons, Show(update, whose)
  PROVE  widget' \in [mode : Shown, last : Seqs \cup {NoSeq}] /\ tracked' \in 0..MaxDaemons
<1>1. update.mode \in Shown /\ update.generation \in Seqs \cup {NoSeq}
  BY DEF Updates
<1> QED
  BY <1>1 DEF Show, WidgetTypes

LEMMA ForgetKnown ==
  ASSUME WidgetTypes, Forget
  PROVE  widget' \in [mode : Shown, last : Seqs \cup {NoSeq}] /\ tracked' \in 0..MaxDaemons
  BY DEF Forget, WidgetTypes

\* A step of the poller: the bus and the click are left alone.
LEMMA PollerAlone ==
  ASSUME EventsKnown, UNCHANGED restVars, ReaderKnown',
         widget' \in [mode : Shown, last : Seqs \cup {NoSeq}], tracked' \in 0..MaxDaemons
  PROVE  EventsKnown'
<1>1. BusKnown'
  BY BusAlone DEF EventsKnown, restVars, busVars
<1>2. WidgetKnown'
  BY DEF EventsKnown, WidgetKnown, WidgetTypes, restVars
<1> QED
  BY <1>1, <1>2 DEF EventsKnown

LEMMA GlanceKnown == ASSUME EventsKnown, Seed \/ Reread PROVE EventsKnown'
<1>1. ReaderTypes /\ HeardKnown /\ BatchKnown /\ WidgetTypes
  BY DEF EventsKnown, ReaderKnown, WidgetKnown
<1>2. PICK next \in {"poll", "adopt", "deliver"} :
        /\ Glance(next)
        /\ next = "adopt" => Holding
        /\ poller.at \in {"seed", "look"}
  BY <1>1 DEF Seed, Reread, ReaderTypes, Holding
<1>3. UNCHANGED <<batch, widget, stream, lower, tracked, restVars>>
  BY DEF Seed, Reread
<1>4. /\ poller' \in [at : {"seed", "poll", "wait", "answer", "look", "tell", "adopt", "deliver"},
                      since : Seqs \cup {NoSeq}, connected : BOOLEAN,
                      then : {"poll", "adopt", "deliver"}]
      /\ poller'.since = poller.since
      /\ poller'.at = next \/ (poller'.at = "tell" /\ poller'.then = next)
  BY <1>1, <1>2 DEF Glance, ReaderTypes
<1>5. glance' \in [life : 0..MaxDaemons, update : Updates \cup {Other}]
  BY <1>2, SeqsKnown, UpdatesKnown DEF Glance, NoGlance, EventsKnown, BusKnown, BusTypes
<1>6. poller'.at = "tell" => glance'.update \in Updates
  BY <1>1, <1>2, <1>4, UpdatesKnown DEF Glance, EventsKnown, BusKnown, BusTypes, ReaderTypes
<1>7. ReaderTypes'
  BY <1>1, <1>3, <1>4, <1>5 DEF ReaderTypes
<1>8. HeardKnown'
  BY <1>1, <1>3, <1>4 DEF HeardKnown
<1>9. Holding' => Holding
  BY <1>2, <1>4 DEF Holding
<1>10. BatchKnown'
  BY <1>1, <1>2, <1>3, <1>4, <1>6, <1>9 DEF BatchKnown
<1> QED
  BY <1>1, <1>3, <1>7, <1>8, <1>10, PollerAlone DEF ReaderKnown, WidgetTypes

LEMMA TellKnown == ASSUME EventsKnown, Tell PROVE EventsKnown'
<1>1. ReaderTypes /\ HeardKnown /\ BatchKnown /\ WidgetTypes
  BY DEF EventsKnown, ReaderKnown, WidgetKnown
<1>2. /\ poller.at = "tell" /\ glance.update \in Updates /\ glance.life \in 0..MaxDaemons
      /\ Show(glance.update, glance.life) /\ glance' = NoGlance /\ UNCHANGED <<batch, stream, lower, restVars>>
  BY <1>1 DEF Tell, BatchKnown, ReaderTypes
<1>3. /\ poller' \in [at : {"seed", "poll", "wait", "answer", "look", "tell", "adopt", "deliver"},
                      since : Seqs \cup {NoSeq}, connected : BOOLEAN,
                      then : {"poll", "adopt", "deliver"}]
      /\ poller'.since = poller.since /\ poller'.at = poller.then
      /\ poller.then \in {"poll", "adopt", "deliver"}
  BY <1>1 DEF Tell, ReaderTypes
<1>4. glance' \in [life : 0..MaxDaemons, update : Updates \cup {Other}]
  BY <1>2, SeqsKnown DEF NoGlance
<1>5. ReaderTypes'
  BY <1>1, <1>2, <1>3, <1>4 DEF ReaderTypes
<1>6. HeardKnown'
  BY <1>1, <1>2, <1>3 DEF HeardKnown
<1>7. Holding' => Holding
  BY <1>2, <1>3 DEF Holding
<1>8. BatchKnown'
  BY <1>1, <1>2, <1>3, <1>7 DEF BatchKnown
<1>9. widget' \in [mode : Shown, last : Seqs \cup {NoSeq}] /\ tracked' \in 0..MaxDaemons
  BY <1>1, <1>2, ShowKnown
<1> QED
  BY <1>2, <1>5, <1>6, <1>8, <1>9, PollerAlone DEF ReaderKnown

LEMMA PollKnown == ASSUME EventsKnown, Unreachable \/ Poll PROVE EventsKnown'
<1> USE SeqsKnown
<1>1. ReaderTypes /\ HeardKnown /\ BatchKnown /\ WidgetTypes /\ latest \in Seqs /\ daemons \in 0..MaxDaemons
  BY DEF EventsKnown, ReaderKnown, WidgetKnown, BusKnown, BusTypes
<1>2. CASE Unreachable
  <2>1. /\ poller' = [at |-> "poll", since |-> NoSeq, connected |-> FALSE, then |-> "poll"]
        /\ UNCHANGED <<batch, glance, stream, restVars>> /\ Forget /\ lower' = FALSE
    BY <1>2 DEF Unreachable
  <2>2. ReaderTypes'
    BY <1>1, <2>1 DEF ReaderTypes
  <2>3. HeardKnown' /\ BatchKnown'
    BY <2>1 DEF HeardKnown, BatchKnown, Holding
  <2> QED
    BY <1>1, <2>1, <2>2, <2>3, ForgetKnown, PollerAlone DEF ReaderKnown
<1>3. CASE Poll
  <2>1. UNCHANGED <<batch, glance, widget, lower, tracked, restVars>> /\ poller.at = "poll"
    BY <1>3 DEF Poll
  <2>2. CASE poller.since = NoSeq
    <3>1. /\ poller' = [poller EXCEPT !.at = "wait", !.since = latest]
          /\ stream' = [life |-> daemons, from |-> latest, heard |-> {}, lost |-> 0]
      BY <1>3, <2>2 DEF Poll
    <3>2. /\ poller' \in [at : {"seed", "poll", "wait", "answer", "look", "tell", "adopt", "deliver"},
                          since : Seqs \cup {NoSeq}, connected : BOOLEAN,
                          then : {"poll", "adopt", "deliver"}]
          /\ poller'.since = latest /\ poller'.at = "wait"
      BY <1>1, <3>1 DEF ReaderTypes
    <3>3. ReaderTypes'
      BY <1>1, <2>1, <3>1, <3>2 DEF ReaderTypes
    <3>4. HeardKnown'
      BY <1>1, <3>1, <3>2, FS_EmptySet DEF HeardKnown
    <3>5. BatchKnown'
      BY <1>1, <3>2 DEF BatchKnown, Holding
    <3> QED
      BY <1>1, <2>1, <3>3, <3>4, <3>5, PollerAlone DEF ReaderKnown, WidgetTypes
  <2>3. CASE poller.since # NoSeq
    <3>1. poller' = [poller EXCEPT !.at = "wait"] /\ UNCHANGED stream
      BY <1>3, <2>3 DEF Poll
    <3>2. /\ poller' \in [at : {"seed", "poll", "wait", "answer", "look", "tell", "adopt", "deliver"},
                          since : Seqs \cup {NoSeq}, connected : BOOLEAN,
                          then : {"poll", "adopt", "deliver"}]
          /\ poller'.since = poller.since /\ poller'.at = "wait"
      BY <1>1, <3>1 DEF ReaderTypes
    <3>3. ReaderTypes' /\ HeardKnown' /\ BatchKnown'
      BY <1>1, <2>1, <2>3, <3>1, <3>2 DEF ReaderTypes, HeardKnown, BatchKnown, Holding
    <3> QED
      BY <1>1, <2>1, <3>3, PollerAlone DEF ReaderKnown, WidgetTypes
  <2> QED
    BY <2>2, <2>3
<1> QED
  BY <1>2, <1>3

LEMMA AnswerKnown == ASSUME EventsKnown, Answer PROVE EventsKnown'
<1> USE SeqsKnown
<1>1. /\ ReaderTypes /\ HeardKnown /\ BatchKnown /\ WidgetTypes
      /\ latest \in Seqs /\ daemons \in 0..MaxDaemons /\ BusKnown
  BY DEF EventsKnown, ReaderKnown, WidgetKnown, BusKnown, BusTypes
<1>2. UNCHANGED <<glance, widget, stream, tracked, restVars>> /\ poller.since \in Seqs
  BY <1>1 DEF Answer, BatchKnown, ReaderTypes
<1>3. /\ poller' \in [at : {"seed", "poll", "wait", "answer", "look", "tell", "adopt", "deliver"},
                      since : Seqs \cup {NoSeq}, connected : BOOLEAN,
                      then : {"poll", "adopt", "deliver"}]
      /\ poller'.since = poller.since /\ poller'.at = "answer"
  BY <1>1 DEF Answer, ReaderTypes
<1>4. /\ batch' \in [life : 0..MaxDaemons, seq : Seqs, events : SUBSET Entry, missed : Seqs]
      /\ poller.since <= batch'.seq =>
           /\ poller.since + batch'.missed <= batch'.seq
           /\ {e.seq : e \in batch'.events} = poller.since + batch'.missed + 1 .. batch'.seq
  <2>1. CASE latest > poller.since
    <3>1. batch' = BatchSince(poller.since)
      BY <2>1 DEF Answer
    <3>2. poller.since < latest
      BY <1>1, <1>2, <2>1
    <3> QED
      BY <1>1, <1>2, <3>1, <3>2, BatchSpan
  <2>2. CASE ~(latest > poller.since)
    <3>1. batch' = [NoBatch EXCEPT !.life = daemons, !.seq = latest]
      BY <2>2 DEF Answer
    <3>2. batch' = [life |-> daemons, seq |-> latest, events |-> {}, missed |-> 0]
      BY <3>1 DEF NoBatch
    <3>0. latest \in Nat /\ poller.since \in Nat /\ latest <= poller.since
      BY <1>1, <1>2, <2>2 DEF Seqs
    <3>3. batch' \in [life : 0..MaxDaemons, seq : Seqs, events : SUBSET Entry, missed : Seqs]
      BY <1>1, <3>2
    <3>4. {e.seq : e \in batch'.events} = {}
      BY <3>2
    <3>5. poller.since <= batch'.seq => poller.since + 0 + 1 .. batch'.seq = {}
      BY <3>0, <3>2
    <3> QED
      BY <3>0, <3>2, <3>3, <3>4, <3>5
  <2> QED
    BY <2>1, <2>2
<1>8. lower' \in BOOLEAN
  BY <1>1 DEF Answer, ReaderTypes
<1>5. ReaderTypes'
  BY <1>1, <1>2, <1>3, <1>4, <1>8 DEF ReaderTypes
<1>6. HeardKnown'
  BY <1>1, <1>2, <1>3 DEF HeardKnown
<1>7. BatchKnown'
  BY <1>2, <1>3, <1>4 DEF BatchKnown
<1> QED
  BY <1>1, <1>2, <1>5, <1>6, <1>7, PollerAlone DEF ReaderKnown, WidgetTypes

LEMMA ConnectKnown == ASSUME EventsKnown, Connect PROVE EventsKnown'
<1>1. ReaderTypes /\ HeardKnown /\ BatchKnown /\ WidgetTypes
  BY DEF EventsKnown, ReaderKnown, WidgetKnown
<1>2. UNCHANGED <<batch, glance, widget, stream, lower, tracked, restVars>> /\ Holding
  BY DEF Connect, Holding
<1>3. /\ poller' \in [at : {"seed", "poll", "wait", "answer", "look", "tell", "adopt", "deliver"},
                      since : Seqs \cup {NoSeq}, connected : BOOLEAN,
                      then : {"poll", "adopt", "deliver"}]
      /\ poller'.since = poller.since /\ poller'.at \in {"adopt", "look"}
  BY <1>1 DEF Connect, ReaderTypes
<1>4. ReaderTypes' /\ HeardKnown'
  BY <1>1, <1>2, <1>3 DEF ReaderTypes, HeardKnown
<1>5. BatchKnown'
  BY <1>1, <1>2, <1>3 DEF BatchKnown
<1> QED
  BY <1>1, <1>2, <1>4, <1>5, PollerAlone DEF ReaderKnown, WidgetTypes

LEMMA AdoptSeqKnown == ASSUME EventsKnown, AdoptSeq PROVE EventsKnown'
<1> USE SeqsKnown
<1>1. ReaderTypes /\ HeardKnown /\ BatchKnown /\ WidgetTypes
  BY DEF EventsKnown, ReaderKnown, WidgetKnown
<1>2. /\ UNCHANGED <<batch, glance, restVars>> /\ poller.at = "adopt" /\ Holding
      /\ poller.since \in Seqs /\ batch.seq \in Seqs /\ batch.life \in 0..MaxDaemons
  BY <1>1 DEF AdoptSeq, Holding, BatchKnown, ReaderTypes
<1>3. CASE batch.seq < poller.since
  <2>1. /\ poller' = [poller EXCEPT !.at = "look", !.since = batch.seq, !.then = "deliver"]
        /\ stream' = [life |-> batch.life, from |-> batch.seq, heard |-> {}, lost |-> 0]
        /\ Forget /\ lower' = FALSE
    BY <1>3 DEF AdoptSeq
  <2>2. /\ poller' \in [at : {"seed", "poll", "wait", "answer", "look", "tell", "adopt", "deliver"},
                        since : Seqs \cup {NoSeq}, connected : BOOLEAN,
                        then : {"poll", "adopt", "deliver"}]
        /\ poller'.since = batch.seq /\ poller'.at = "look" /\ poller'.then = "deliver"
    BY <1>1, <1>2, <2>1 DEF ReaderTypes
  <2>3. ReaderTypes'
    BY <1>1, <1>2, <2>1, <2>2 DEF ReaderTypes
  <2>4. HeardKnown'
    BY <1>2, <2>1, <2>2, FS_EmptySet DEF HeardKnown
  <2>5. BatchKnown'
    BY <2>2 DEF BatchKnown, Holding
  <2> QED
    BY <1>1, <1>2, <2>1, <2>3, <2>4, <2>5, ForgetKnown, PollerAlone DEF ReaderKnown
<1>4. CASE ~(batch.seq < poller.since)
  <2>1. /\ poller' = [poller EXCEPT !.at = "deliver", !.since = batch.seq]
        /\ stream' = [stream EXCEPT !.heard = @ \cup {e.seq : e \in batch.events},
                                    !.lost = @ + batch.missed]
        /\ UNCHANGED <<widget, lower, tracked>>
    BY <1>4 DEF AdoptSeq
  <2>2. /\ poller' \in [at : {"seed", "poll", "wait", "answer", "look", "tell", "adopt", "deliver"},
                        since : Seqs \cup {NoSeq}, connected : BOOLEAN,
                        then : {"poll", "adopt", "deliver"}]
        /\ poller'.since = batch.seq /\ poller'.at = "deliver"
    BY <1>1, <1>2, <2>1 DEF ReaderTypes
  <2>3. /\ stream \in [life : 0..MaxDaemons, from : Seqs, heard : SUBSET Seqs, lost : Seqs]
        /\ stream.lost \in Nat /\ stream.from \in Nat /\ batch.missed \in Nat
        /\ poller.since \in Nat /\ batch.seq \in Nat /\ batch.seq <= MaxPublished
    BY <1>1, <1>2 DEF ReaderTypes, Seqs
  <2>4. /\ stream'.life = stream.life /\ stream'.from = stream.from
        /\ stream'.heard = stream.heard \cup {e.seq : e \in batch.events}
        /\ stream'.lost = stream.lost + batch.missed
    BY <2>1, <2>3
  <2>5. /\ poller.since + batch.missed <= batch.seq
        /\ {e.seq : e \in batch.events} = poller.since + batch.missed + 1 .. batch.seq
    BY <1>1, <1>2, <1>4, <2>3 DEF BatchKnown
  <2>6. /\ stream.from <= poller.since /\ stream.heard \subseteq stream.from + 1 .. poller.since
        /\ Cardinality(stream.heard) + stream.lost = poller.since - stream.from
    BY <1>1, <1>2 DEF HeardKnown
  <2>7. /\ stream'.heard \subseteq stream'.from + 1 .. batch.seq
        /\ Cardinality(stream'.heard) + stream'.lost = batch.seq - stream'.from
    BY <2>3, <2>4, <2>5, <2>6, HeardGrows
  <2>8. HeardKnown'
    BY <2>2, <2>3, <2>4, <2>5, <2>6, <2>7 DEF HeardKnown
  <2>9. stream' \in [life : 0..MaxDaemons, from : Seqs, heard : SUBSET Seqs, lost : Seqs]
    <3>1. stream'.heard \subseteq Seqs
      BY <2>3, <2>4, <2>7 DEF Seqs
    <3>2. IsFiniteSet(stream'.heard)
      <4>1. IsFiniteSet(stream'.from + 1 .. batch.seq)
        <5>1. stream'.from + 1 \in Int /\ batch.seq \in Int
          BY <2>3, <2>4
        <5> QED
          BY <5>1, FS_Interval
      <4> QED
        BY <2>7, <4>1, FS_Subset
    <3>3. Cardinality(stream'.heard) \in Nat
      BY <3>2, FS_CardinalityType
    <3>4. stream'.lost \in Seqs
      BY <2>3, <2>4, <2>7, <3>3 DEF Seqs
    <3> QED
      BY <2>1, <2>3, <2>4, <3>1, <3>4
  <2>10. ReaderTypes'
    BY <1>1, <1>2, <2>1, <2>2, <2>9 DEF ReaderTypes
  <2>11. BatchKnown'
    BY <2>2 DEF BatchKnown, Holding
  <2> QED
    BY <1>1, <1>2, <2>1, <2>8, <2>10, <2>11, PollerAlone DEF ReaderKnown, WidgetTypes
<1> QED
  BY <1>3, <1>4

LEMMA DeliverKnown == ASSUME EventsKnown, DeliverBatch PROVE EventsKnown'
<1>1. ReaderTypes /\ HeardKnown /\ BatchKnown /\ WidgetTypes
  BY DEF EventsKnown, ReaderKnown, WidgetKnown
<1>2. /\ UNCHANGED <<glance, stream, lower, restVars>> /\ batch' = NoBatch
      /\ ShowAll(batch.events, stream.life)
  BY DEF DeliverBatch
<1>3. /\ poller' \in [at : {"seed", "poll", "wait", "answer", "look", "tell", "adopt", "deliver"},
                      since : Seqs \cup {NoSeq}, connected : BOOLEAN,
                      then : {"poll", "adopt", "deliver"}]
      /\ poller'.since = poller.since /\ poller'.at = "poll"
  BY <1>1 DEF DeliverBatch, ReaderTypes
<1>4. batch' \in [life : 0..MaxDaemons, seq : Seqs, events : SUBSET Entry, missed : Seqs]
  BY <1>2, SeqsKnown DEF NoBatch
<1>5. ReaderTypes' /\ HeardKnown' /\ BatchKnown'
  BY <1>1, <1>2, <1>3, <1>4 DEF ReaderTypes, HeardKnown, BatchKnown, Holding
<1>6. widget' \in [mode : Shown, last : Seqs \cup {NoSeq}] /\ tracked' \in 0..MaxDaemons
  <2> DEFINE recorded == {e \in batch.events : e.mode \in Shown}
  <2>1. CASE UNCHANGED <<widget, tracked>>
    BY <1>1, <2>1 DEF WidgetTypes
  <2>2. ASSUME NEW newest \in recorded,
               Show([mode |-> newest.mode, generation |-> newest.generation], stream.life)
        PROVE  widget' \in [mode : Shown, last : Seqs \cup {NoSeq}] /\ tracked' \in 0..MaxDaemons
    <3>1. newest \in Entry /\ newest.mode \in Shown /\ stream.life \in 0..MaxDaemons
      BY <1>1 DEF ReaderTypes
    <3>2. [mode |-> newest.mode, generation |-> newest.generation] \in Updates
      BY <3>1 DEF Entry, Updates
    <3> QED
      BY <1>1, <2>2, <3>1, <3>2, ShowKnown
  <2> QED
    BY <1>2, <2>1, <2>2 DEF ShowAll
<1> QED
  BY <1>2, <1>5, <1>6, PollerAlone DEF ReaderKnown

(* The click.                                                               *)

LEMMA ClickerKnown ==
  ASSUME EventsKnown, ClickerStep
  PROVE  EventsKnown'
<1> USE SeqsKnown, UpdatesKnown
<1>1. BusKnown /\ ReaderKnown /\ WidgetTypes /\ (clicker.at # "idle" => clicker.update \in Updates)
  BY DEF EventsKnown, WidgetKnown
<1>2. /\ UNCHANGED <<serving, daemon, unsaid, latest, oldest, ring, daemons, published>>
      /\ UNCHANGED <<poller, batch, glance, stream, lower>>
  BY DEF ClickerStep, SetAnswered, ReadBack, SendBack, clickRest, busVars, readerVars
<1>3. BusKnown'
  BY <1>1, <1>2, BusAlone
<1>4. ReaderKnown'
  BY <1>1, <1>2 DEF ReaderKnown, ReaderTypes, HeardKnown, BatchKnown, Holding
<1>5. Idling \in [at : {"idle", "setting", "read", "send"}, life : 0..MaxDaemons,
                 update : Updates \cup {Other}] /\ Idling.at = "idle"
  BY DEF Idling
<1>6. CASE SetAnswered
  BY <1>1, <1>3, <1>4, <1>5, <1>6 DEF SetAnswered, EventsKnown, WidgetKnown, WidgetTypes
<1>7. CASE ReadBack
  <2>1. clicker.at = "read" /\ clicker.update \in Updates /\ UNCHANGED <<widget, tracked>>
    BY <1>1, <1>7 DEF ReadBack
  <2>2. CASE serving
    <3>1. clicker' = [at |-> "send", life |-> daemons, update |-> daemon]
      BY <1>7, <2>2 DEF ReadBack
    <3>2. daemon \in Updates /\ daemons \in 0..MaxDaemons
      BY <1>1 DEF BusKnown, BusTypes
    <3> QED
      BY <1>1, <1>3, <1>4, <2>1, <3>1, <3>2 DEF EventsKnown, WidgetKnown, WidgetTypes
  <2>3. CASE ~serving
    <3>1. clicker' = [clicker EXCEPT !.at = "send", !.update.generation = NoSeq]
      BY <1>7, <2>3 DEF ReadBack
    <3>2. [clicker.update EXCEPT !.generation = NoSeq] \in Updates
      BY <2>1 DEF Updates
    <3>3. /\ clicker'.update = [clicker.update EXCEPT !.generation = NoSeq]
          /\ clicker'.at = "send" /\ clicker'.life = clicker.life
          /\ clicker' = [at |-> "send", life |-> clicker.life,
                         update |-> [clicker.update EXCEPT !.generation = NoSeq]]
      BY <1>1, <3>1 DEF WidgetTypes
    <3> QED
      BY <1>1, <1>3, <1>4, <2>1, <3>2, <3>3 DEF EventsKnown, WidgetKnown, WidgetTypes
  <2> QED
    BY <2>2, <2>3
<1>8. CASE SendBack
  <2>1. /\ clicker.update \in Updates /\ clicker.life \in 0..MaxDaemons
        /\ Show(clicker.update, clicker.life) /\ clicker' = Idling
    BY <1>1, <1>8 DEF SendBack, WidgetTypes
  <2>2. widget' \in [mode : Shown, last : Seqs \cup {NoSeq}] /\ tracked' \in 0..MaxDaemons
    BY <1>1, <2>1, ShowKnown
  <2> QED
    BY <1>3, <1>4, <1>5, <2>1, <2>2 DEF EventsKnown, WidgetKnown, WidgetTypes
<1> QED
  BY <1>6, <1>7, <1>8 DEF ClickerStep

LEMMA EventsKnownKept == EventsKnown /\ [EventsNext]_eventsVars => EventsKnown'
<1> SUFFICES ASSUME EventsKnown, [EventsNext]_eventsVars PROVE EventsKnown'
  OBVIOUS
<1>1. CASE UNCHANGED eventsVars
  BY <1>1, BusAlone
     DEF eventsVars, EventsKnown, ReaderKnown, ReaderTypes, HeardKnown, BatchKnown, Holding,
         WidgetKnown, WidgetTypes
<1>2. ASSUME UNCHANGED <<readerVars, clicker, widget, tracked>>, BusKnown' PROVE EventsKnown'
  BY <1>2 DEF readerVars, EventsKnown, ReaderKnown, ReaderTypes, HeardKnown, BatchKnown, Holding,
              WidgetKnown, WidgetTypes
<1>3. ASSUME NEW m \in Shown, MoveElsewhere(m) PROVE EventsKnown'
  BY <1>2, <1>3, MoveKnown DEF MoveElsewhere, busVars, EventsKnown
<1>4. ASSUME NEW m \in Shown, Click(m) PROVE EventsKnown'
  <2>1. BusKnown' /\ daemon' \in Updates
    BY <1>4, MoveKnown DEF Click, clickRest, busVars, EventsKnown
  <2>2. /\ clicker' = [at |-> "setting", life |-> daemons, update |-> daemon']
        /\ UNCHANGED <<readerVars, widget, tracked>> /\ daemons \in 0..MaxDaemons
    BY <1>4 DEF Click, clickRest, EventsKnown, BusKnown, BusTypes
  <2>3. WidgetKnown'
    BY <2>1, <2>2 DEF EventsKnown, WidgetKnown, WidgetTypes
  <2>4. ReaderKnown'
    BY <2>2 DEF readerVars, EventsKnown, ReaderKnown, ReaderTypes, HeardKnown, BatchKnown, Holding
  <2> QED
    BY <2>1, <2>3, <2>4 DEF EventsKnown
<1>5. CASE Happen
  BY <1>2, <1>5, HappenKnown DEF Happen, EventsKnown
<1>6. CASE EndDaemon \/ BeginDaemon
  BY <1>2, <1>6, DaemonEndsKnown DEF EndDaemon, BeginDaemon, EventsKnown
<1>7. ASSUME NEW what \in unsaid, Publish(what) PROVE EventsKnown'
  BY <1>2, <1>7, PublishKnown DEF Publish, EventsKnown
<1>8. CASE PollerStep
  BY <1>8, GlanceKnown, TellKnown, PollKnown, AnswerKnown, ConnectKnown, AdoptSeqKnown, DeliverKnown
     DEF PollerStep
<1> QED
  BY <1>1, <1>3, <1>4, <1>5, <1>6, <1>7, <1>8, ClickerKnown DEF EventsNext

\* A reader is never handed a gap it cannot see, for any ring and any number of events: each one
\* since it began to read was in an answer or counted in `missed` (EventBus::batch).
THEOREM EventsAlwaysAccounted == EventsSpec => []EventsAccounted
<1>1. EventsKnown => EventsAccounted
  BY DEF EventsKnown, ReaderKnown, HeardKnown, EventsAccounted
<1> QED
  BY <1>1, EventsKnownAtFirst, EventsKnownKept, PTL DEF EventsSpec

(***************************************************************************)
(* Whose settings are in use.                                               *)
(***************************************************************************)

\* A file operation is for somebody else than the owner, who is put aside first if there is one,
\* and files are put back only before the modules are built.
TaskKnown ==
  /\ life \in {"starting", "standing", "leaving"} => task.step = "none"
  /\ task.step = "save" =>
       /\ life \in {"settled", "running"}
       /\ task.next \in Members \ {account.owner} /\ account.restoring = NoOne
       /\ Aside(task.next) \/ task.at = Files + 1
       /\ ~task.adopts => life = "settled" /\ HasCopy(task.next)
  /\ task.step = "put" =>
       /\ life \in {"settling", "settled"}
       /\ task.next \in Members /\ task.next = account.restoring

\* The copies of all who are not the owner are what they last had, as far as a file operation has
\* got; and so is what it has put back.
CopiesStand ==
  /\ \A u \in Members : u # account.owner \/ account.restoring # NoOne => copies[u] = theirs[u]
  /\ account.restoring # NoOne => HasCopy(account.restoring)
  /\ task.step = "save" /\ account.owner # NoOne =>
       \A f \in Index : f < task.at => copies[account.owner][f] = theirs[account.owner][f]
  /\ task.step = "put" => \A f \in Index : f < task.at => live[f] = copies[task.next][f]

\* Whoever the last hand-over was for is being served, has been, or was given up on.
HandOverDone ==
  life \in {"settled", "running"} /\ handedFor # NoOne =>
    /\ seen = seated
    /\ handedFor = seated =>
         /\ task.step = "none" => Called(seated) = "keep"
         /\ task.step # "none" => task.next = seated

SettingsKnown == ~astray => CopiesStand /\ OwnSettings

UsersKnown == UsersTypes /\ TaskKnown /\ HandOverDone /\ SettingsKnown

LEMMA NoOneKnown ==
  /\ NoOne \notin Members /\ Stranger \notin Members /\ Stranger # NoOne
  /\ 1 \in Index /\ Files \in Nat /\ Files >= 1 /\ Index = 1..Files
  BY UsersAssumption DEF Index

LEMMA IdleKnown ==
  Idle \in Tasks /\ Idle.step = "none"
  BY NoOneKnown DEF Idle, Tasks

\* Whoever is served has not been, is one of Pyren's users, and no restore is in progress.
LEMMA CalledKnown ==
  ASSUME NEW person \in Persons, Called(person) \in {"adopt", "restore"}
  PROVE  /\ person \in Members \ {account.owner} /\ account.restoring = NoOne
         /\ Called(person) = "restore" => HasCopy(person)
         /\ gaveUp # person
  BY NoOneKnown DEF Called, StillGivenUp, Persons

LEMMA TasksMove ==
  ASSUME NEW next \in Members
  PROVE  /\ \A adopts \in BOOLEAN, at \in 1..Files + 1 :
              [step |-> "save", next |-> next, adopts |-> adopts, at |-> at] \in Tasks
         /\ PutBack(next) \in Tasks
         /\ PutBack(next).step = "put" /\ PutBack(next).next = next
         /\ PutBack(next).at = IF HasCopy(next) THEN 1 ELSE Files + 1
<1>1. 1 \in 1..Files + 1 /\ Files + 1 \in 1..Files + 1
  BY NoOneKnown
<1> QED
  BY <1>1 DEF Tasks, PutBack

LEMMA UndertakeKnown ==
  ASSUME NEW next \in Members, NEW adopts \in BOOLEAN, Undertake(next, adopts)
  PROVE  /\ task' \in Tasks /\ task'.step = "save" /\ task'.next = next /\ task'.adopts = adopts
         /\ task'.at = IF Aside(next) THEN 1 ELSE Files + 1
<1>1. 1 \in 1..Files + 1 /\ Files + 1 \in 1..Files + 1
  BY NoOneKnown
<1>2. (IF Aside(next) THEN 1 ELSE Files + 1) \in 1..Files + 1
  BY <1>1
<1> QED
  BY <1>2, TasksMove DEF Undertake

LEMMA NextFileKnown ==
  ASSUME task \in Tasks, task.at <= Files
  PROVE  /\ Next1 \in Tasks /\ Next1.at = task.at + 1 /\ Next1.step = task.step
         /\ Next1.next = task.next /\ Next1.adopts = task.adopts
         /\ task.at \in Index
<1>1. task.at \in 1..Files + 1
  BY DEF Tasks
<1>2. task.at + 1 \in 1..Files + 1
  BY <1>1, NoOneKnown
<1> QED
  BY <1>1, <1>2, NoOneKnown DEF Next1, Tasks

LEMMA RememberKnown ==
  ASSUME live \in Contents, running \in Values \cup {Absent}, Remember
  PROVE  live' \in Contents /\ live'[1] = running /\ \A f \in Index : f # 1 => live'[f] = live[f]
  BY NoOneKnown DEF Remember, Contents

LEMMA TaskTypeKept == UsersTypes /\ TaskKnown /\ UsersNext => task' \in Tasks
<1> SUFFICES ASSUME UsersTypes, TaskKnown, UsersNext PROVE task' \in Tasks
  OBVIOUS
<1>1. task \in Tasks /\ seen \in Persons /\ seated \in Persons /\ account \in UsersConfig
  BY DEF UsersTypes
<1>2. CASE FinishInterrupted
  <2>1. account.restoring # NoOne => account.restoring \in Members
    BY <1>1 DEF UsersConfig
  <2> QED
    BY <1>1, <1>2, <2>1, TasksMove DEF FinishInterrupted
<1>3. CASE SettleLook \/ WatchLook
  <2>1. seen' \in Persons
    BY <1>1, <1>3 DEF SettleLook, WatchLook, Look
  <2>2. CASE UNCHANGED task
    BY <1>1, <2>2
  <2>3. CASE \E adopts \in BOOLEAN : Undertake(seen', adopts) /\ Called(seen') \in {"adopt", "restore"}
    BY <2>1, <2>3, CalledKnown, UndertakeKnown
  <2> QED
    BY <1>3, <2>2, <2>3 DEF SettleLook, WatchLook
<1>4. CASE SaveFile \/ RestoreFile
  BY <1>1, <1>4, IdleKnown, NextFileKnown DEF SaveFile, RestoreFile
<1>5. CASE Mark
  BY <1>5, TasksMove DEF Mark, TaskKnown
<1>6. CASE Reload \/ Build \/ Replace \/ Adopt \/ Claim \/ Die
  BY <1>1, <1>6, IdleKnown DEF Reload, Build, Replace, Adopt, Claim, Die, FreshUsers
<1>7. CASE \/ \E person \in Persons : Arrive(person)
           \/ \E f \in Index, v \in Values, written \in BOOLEAN : Edit(f, v, written)
           \/ \E enabled \in BOOLEAN : SetStandDown(enabled)
  BY <1>1, <1>7 DEF Arrive, Edit, SetStandDown
<1> QED
  BY <1>2, <1>3, <1>4, <1>5, <1>6, <1>7 DEF UsersNext, DaemonStep

LEMMA AccountTypeKept ==
  UsersTypes /\ TaskKnown /\ UsersNext => account' \in UsersConfig /\ accountFile' \in UsersConfig
<1> SUFFICES ASSUME UsersTypes, TaskKnown, UsersNext
             PROVE  account' \in UsersConfig /\ accountFile' \in UsersConfig
  OBVIOUS
<1>1. account \in UsersConfig /\ accountFile \in UsersConfig /\ task.next \in Members \cup {NoOne}
  BY DEF UsersTypes, Tasks
<1>2. ASSUME NEW config \in UsersConfig, PersistAccount(config)
      PROVE  account' \in UsersConfig /\ accountFile' \in UsersConfig
  BY <1>1, <1>2 DEF PersistAccount
<1>3. CASE Adopt \/ Mark \/ Claim
  <2>1. /\ [account EXCEPT !.owner = task.next] \in UsersConfig
        /\ [account EXCEPT !.restoring = task.next] \in UsersConfig
        /\ [account EXCEPT !.owner = task.next, !.restoring = NoOne] \in UsersConfig
    BY <1>1 DEF UsersConfig
  <2> QED
    BY <1>2, <1>3, <2>1 DEF Adopt, Mark, Claim
<1>4. ASSUME NEW enabled \in BOOLEAN, SetStandDown(enabled)
      PROVE  account' \in UsersConfig /\ accountFile' \in UsersConfig
  <2>1. /\ [account EXCEPT !.standDown = enabled] \in UsersConfig
        /\ [accountFile EXCEPT !.standDown = enabled] \in UsersConfig
    BY <1>1 DEF UsersConfig
  <2> QED
    BY <1>1, <1>2, <1>4, <2>1 DEF SetStandDown
<1>5. CASE Reload
  <2>1. [account EXCEPT !.standDown = accountFile.standDown] \in UsersConfig
    BY <1>1 DEF UsersConfig
  <2> QED
    BY <1>1, <1>5, <2>1 DEF Reload
<1>6. CASE Replace \/ Die
  BY <1>1, <1>6 DEF Replace, Die, FreshUsers
<1>7. CASE FinishInterrupted \/ SettleLook \/ Build \/ WatchLook \/ SaveFile \/ RestoreFile
  BY <1>1, <1>7 DEF FinishInterrupted, SettleLook, Build, WatchLook, SaveFile, RestoreFile
<1>8. CASE \/ \E person \in Persons : Arrive(person)
           \/ \E f \in Index, v \in Values, written \in BOOLEAN : Edit(f, v, written)
  BY <1>1, <1>8 DEF Arrive, Edit
<1> QED
  BY <1>3, <1>4, <1>5, <1>6, <1>7, <1>8 DEF UsersNext, DaemonStep

\* The files in use, the copies and what is kept of both.
LEMMA FilesTypeKept ==
  UsersTypes /\ TaskKnown /\ UsersNext =>
    /\ live' \in Contents /\ copies' \in [Members -> Contents] /\ theirs' \in [Members -> Contents]
    /\ running' \in Values \cup {Absent}
<1> SUFFICES ASSUME UsersTypes, TaskKnown, UsersNext
             PROVE  /\ live' \in Contents /\ copies' \in [Members -> Contents]
                    /\ theirs' \in [Members -> Contents] /\ running' \in Values \cup {Absent}
  OBVIOUS
<1> USE NoOneKnown
<1>1. /\ live \in Contents /\ copies \in [Members -> Contents] /\ theirs \in [Members -> Contents]
      /\ running \in Values \cup {Absent} /\ account \in UsersConfig /\ task \in Tasks
  BY DEF UsersTypes
<1>2. /\ account.owner # NoOne => account.owner \in Members
      /\ task.next # NoOne => task.next \in Members
  BY <1>1 DEF UsersConfig, Tasks
<1>3. \A f \in Index, v \in Values \cup {Absent} : [live EXCEPT ![f] = v] \in Contents
  BY <1>1 DEF Contents
<1>4. \A f \in Index : live[f] \in Values \cup {Absent}
  BY <1>1 DEF Contents
<1>5. CASE FinishInterrupted \/ SettleLook \/ Reload \/ Mark \/ Claim
  BY <1>1, <1>5 DEF FinishInterrupted, SettleLook, Reload, Mark, Claim
<1>6. CASE Build
  <2>1. PICK mode \in Values \cup {Absent} :
          /\ running' = mode
          /\ theirs' = IF account.owner # NoOne /\ account.restoring = NoOne
                         THEN [theirs EXCEPT ![account.owner] = [live EXCEPT ![1] = mode]]
                         ELSE theirs
    BY <1>4, <1>6 DEF Build
  <2>2. [live EXCEPT ![1] = mode] \in Contents
    BY <1>3
  <2> QED
    BY <1>1, <1>2, <1>6, <2>1, <2>2 DEF Build
<1>7. CASE WatchLook
  BY <1>1, <1>3, <1>7 DEF WatchLook, Remember
<1>8. CASE Replace
  BY <1>1, <1>4, <1>8 DEF Replace, FreshUsers
<1>9. CASE Die
  <2>1. live' \in Contents
    BY <1>1, <1>3, <1>9 DEF Die, Remember
  <2>2. live'[1] \in Values \cup {Absent}
    BY <2>1 DEF Contents
  <2> QED
    BY <1>1, <1>2, <1>9, <2>1, <2>2 DEF Die, FreshUsers
<1>10. CASE SaveFile
  <2>1. task.at \in Index /\ live[task.at] \in Values \cup {Absent}
    BY <1>1, <1>4, <1>10, NextFileKnown DEF SaveFile
  <2>2. account.owner \in Members
    <3>1. Aside(task.next)
      BY <1>10, <2>1 DEF SaveFile, TaskKnown
    <3> QED
      BY <1>2, <3>1 DEF Aside
  <2>3. copies[account.owner] \in Contents
    BY <1>1, <2>2
  <2>4. [copies[account.owner] EXCEPT ![task.at] = live[task.at]] \in Contents
    BY <2>1, <2>3 DEF Contents
  <2>5. copies' \in [Members -> Contents]
    BY <1>1, <1>10, <2>2, <2>4 DEF SaveFile
  <2>6. (IF life = "running" THEN [live EXCEPT ![1] = running] ELSE live) \in Contents
    BY <1>1, <1>3
  <2> QED
    BY <1>1, <1>10, <2>2, <2>5, <2>6 DEF SaveFile
<1>11. CASE Adopt
  <2>1. (IF life = "running" THEN [live EXCEPT ![1] = running] ELSE live) \in Contents
    BY <1>1, <1>3
  <2>2. task.next \in Members
    BY <1>11 DEF Adopt, TaskKnown
  <2> QED
    BY <1>1, <1>11, <2>1, <2>2 DEF Adopt
<1>12. CASE RestoreFile
  <2>1. CASE UNCHANGED live
    BY <1>1, <1>12, <2>1 DEF RestoreFile
  <2>2. CASE task.at <= Files /\ live' = [live EXCEPT ![task.at] = copies[task.next][task.at]]
    <3>1. task.at \in Index /\ task.next \in Members
      BY <1>1, <1>12, <2>2, NextFileKnown DEF RestoreFile, TaskKnown
    <3>2. copies[task.next][task.at] \in Values \cup {Absent}
      BY <1>1, <3>1 DEF Contents
    <3> QED
      BY <1>1, <1>3, <1>12, <2>2, <3>1, <3>2 DEF RestoreFile
  <2> QED
    BY <1>12, <2>1, <2>2 DEF RestoreFile
<1>13. ASSUME NEW f \in Index, NEW v \in Values, NEW written \in BOOLEAN, Edit(f, v, written)
       PROVE  /\ live' \in Contents /\ copies' \in [Members -> Contents]
              /\ theirs' \in [Members -> Contents] /\ running' \in Values \cup {Absent}
  <2>1. live' \in Contents /\ copies' = copies /\ running' \in Values \cup {Absent}
    BY <1>1, <1>3, <1>13 DEF Edit
  <2>2. CASE Counts(f, written)
    <3>1. account.owner \in Members
      BY <1>2, <2>2 DEF Counts
    <3>2. theirs[account.owner] \in Contents
      BY <1>1, <3>1
    <3>3. [theirs[account.owner] EXCEPT ![f] = v] \in Contents
      BY <3>2 DEF Contents
    <3> QED
      BY <1>1, <1>13, <2>1, <2>2, <3>1, <3>3 DEF Edit
  <2>3. CASE ~Counts(f, written)
    BY <1>1, <1>13, <2>1, <2>3 DEF Edit
  <2> QED
    BY <2>2, <2>3
<1>14. CASE \/ \E person \in Persons : Arrive(person)
            \/ \E enabled \in BOOLEAN : SetStandDown(enabled)
  BY <1>1, <1>14 DEF Arrive, SetStandDown
<1> QED
  BY <1>5, <1>6, <1>7, <1>8, <1>9, <1>10, <1>11, <1>12, <1>13, <1>14 DEF UsersNext, DaemonStep

LEMMA UsersTypesKept == UsersTypes /\ TaskKnown /\ [UsersNext]_usersVars => UsersTypes'
<1> SUFFICES ASSUME UsersTypes, TaskKnown, UsersNext PROVE UsersTypes'
  BY DEF UsersTypes, usersVars
<1>1. task' \in Tasks /\ account' \in UsersConfig /\ accountFile' \in UsersConfig
  BY TaskTypeKept, AccountTypeKept
<1>2. /\ live' \in Contents /\ copies' \in [Members -> Contents] /\ theirs' \in [Members -> Contents]
      /\ running' \in Values \cup {Absent}
  BY FilesTypeKept
<1>3. seated' \in Persons /\ seen' \in Persons /\ handedFor' \in Persons
  <2>1. seated \in Persons /\ seen \in Persons /\ handedFor \in Persons /\ NoOne \in Persons
    BY DEF UsersTypes, Persons
  <2> QED
    BY <2>1
       DEF UsersNext, DaemonStep, FinishInterrupted, SettleLook, Look, Reload, Build, WatchLook, Replace,
           FreshUsers, SaveFile, Adopt, Mark, RestoreFile, Claim, Die, Arrive, Edit, SetStandDown
<1>4. gaveUp' \in Members \cup {NoOne}
  <2>1. gaveUp \in Members \cup {NoOne} /\ task.next \in Members \cup {NoOne}
    BY DEF UsersTypes, Tasks
  <2> QED
    BY <2>1
       DEF UsersNext, DaemonStep, FinishInterrupted, SettleLook, StillGivenUp, Reload, Build, WatchLook,
           Replace, FreshUsers, SaveFile, Adopt, Mark, RestoreFile, Claim, Die, Arrive, Edit, SetStandDown
<1>5. /\ life' \in {"starting", "settling", "standing", "settled", "running", "leaving"}
      /\ handed' \in BOOLEAN /\ astray' \in BOOLEAN
  <2>1. /\ life \in {"starting", "settling", "standing", "settled", "running", "leaving"}
        /\ handed \in BOOLEAN /\ astray \in BOOLEAN
    BY DEF UsersTypes
  <2> QED
    BY <2>1
       DEF UsersNext, DaemonStep, FinishInterrupted, SettleLook, Reload, Build, WatchLook, Replace,
           FreshUsers, SaveFile, Adopt, Mark, RestoreFile, Claim, Die, Arrive, Edit, SetStandDown
<1>6. edits' \in 0..MaxEdits /\ faults' \in 0..MaxFaults /\ lives' \in 0..MaxLives
  <2>1. edits \in 0..MaxEdits /\ faults \in 0..MaxFaults /\ lives \in 0..MaxLives
    BY DEF UsersTypes
  <2>2. edits' = edits \/ (edits < MaxEdits /\ edits' = edits + 1)
    BY DEF UsersNext, DaemonStep, FinishInterrupted, SettleLook, Reload, Build, WatchLook, Replace,
           SaveFile, Adopt, Mark, RestoreFile, Claim, Die, Arrive, Edit, SetStandDown
  <2>3. faults' = faults \/ (faults < MaxFaults /\ faults' = faults + 1)
    BY DEF UsersNext, DaemonStep, FinishInterrupted, SettleLook, Reload, Build, WatchLook, Replace, Look,
           SaveFile, Adopt, Mark, RestoreFile, Claim, Die, Arrive, Edit, SetStandDown, PersistAccount,
           NoFault, Fault
  <2>4. lives' = lives \/ (lives < MaxLives /\ lives' = lives + 1)
    BY DEF UsersNext, DaemonStep, FinishInterrupted, SettleLook, Reload, Build, WatchLook, Replace,
           SaveFile, Adopt, Mark, RestoreFile, Claim, Die, Arrive, Edit, SetStandDown
  <2> QED
    BY <2>1, <2>2, <2>3, <2>4, UsersAssumption
<1> QED
  BY <1>1, <1>2, <1>3, <1>4, <1>5, <1>6 DEF UsersTypes

LEMMA TaskKnownKept == UsersTypes /\ TaskKnown /\ [UsersNext]_usersVars => TaskKnown'
<1> SUFFICES ASSUME UsersTypes, TaskKnown, UsersNext PROVE TaskKnown'
  BY DEF TaskKnown, usersVars, Aside, HasCopy
<1>1. task \in Tasks /\ account \in UsersConfig /\ seen \in Persons /\ seated \in Persons
  BY DEF UsersTypes
<1>2. ASSUME task' = Idle PROVE TaskKnown'
  BY <1>2, IdleKnown DEF TaskKnown
<1>3. ASSUME task.step = "none", UNCHANGED task PROVE TaskKnown'
  BY <1>3 DEF TaskKnown
<1>4. ASSUME UNCHANGED <<task, account, copies, life>> PROVE TaskKnown'
  BY <1>4 DEF TaskKnown, Aside, HasCopy
<1>5. CASE FinishInterrupted
  <2>1. CASE account.restoring # NoOne
    <3>1. account.restoring \in Members /\ task' = PutBack(account.restoring) /\ life' = "settling"
          /\ UNCHANGED account
      BY <1>1, <1>5, <2>1 DEF FinishInterrupted, UsersConfig
    <3> QED
      BY <3>1, TasksMove DEF TaskKnown
  <2>2. CASE account.restoring = NoOne
    BY <1>3, <1>5, <2>2 DEF FinishInterrupted, TaskKnown
  <2> QED
    BY <2>1, <2>2
<1>6. CASE SettleLook \/ WatchLook
  <2>1. seen' \in Persons /\ task.step = "none" /\ UNCHANGED <<account, copies>>
    BY <1>1, <1>6 DEF SettleLook, WatchLook, Look
  <2>2. CASE UNCHANGED task
    BY <1>3, <2>1, <2>2
  <2>3. ASSUME NEW adopts \in BOOLEAN, Undertake(seen', adopts), Called(seen') \in {"adopt", "restore"},
               life' \in {"settled", "running"},
               ~adopts => life' = "settled" /\ Called(seen') = "restore"
        PROVE  TaskKnown'
    <3>1. /\ seen' \in Members \ {account.owner} /\ account.restoring = NoOne
          /\ Called(seen') = "restore" => HasCopy(seen')
      BY <2>1, <2>3, CalledKnown
    <3>2. /\ task'.step = "save" /\ task'.next = seen' /\ task'.adopts = adopts
          /\ task'.at = IF Aside(seen') THEN 1 ELSE Files + 1
      BY <2>3, <3>1, UndertakeKnown
    <3> QED
      BY <2>1, <2>3, <3>1, <3>2 DEF TaskKnown, Aside, HasCopy
  <2>4. CASE SettleLook /\ ~UNCHANGED task
    <3>1. /\ Undertake(seen', Called(seen') = "adopt") /\ life' = "settled"
          /\ Called(seen') \in {"adopt", "restore"} /\ (Called(seen') = "adopt") \in BOOLEAN
      BY <2>4 DEF SettleLook
    <3> QED
      BY <2>3, <3>1
  <2>5. CASE WatchLook /\ ~UNCHANGED task
    BY <2>3, <2>5 DEF WatchLook
  <2> QED
    BY <1>6, <2>2, <2>4, <2>5
<1>7. CASE SaveFile
  <2>1. CASE task' = Next1
    <3>1. /\ task.step = "save" /\ task.at <= Files /\ UNCHANGED <<account, life>>
          /\ copies' = [copies EXCEPT ![account.owner][task.at] = live[task.at]]
      BY <1>7, <2>1, IdleKnown, NextFileKnown, <1>1 DEF SaveFile
    <3>2. Aside(task.next) /\ task.next \in Members \ {account.owner}
      BY <1>1, <3>1, NextFileKnown, NoOneKnown DEF TaskKnown
    <3>3. copies'[task.next] = copies[task.next]
      BY <3>1, <3>2 DEF UsersTypes
    <3> QED
      BY <1>1, <2>1, <3>1, <3>2, <3>3, NextFileKnown DEF TaskKnown, Aside, HasCopy
  <2> QED
    BY <1>2, <1>7, <2>1 DEF SaveFile
<1>8. CASE RestoreFile
  <2>1. CASE task' = Next1
    <3>1. task.step = "put" /\ task.at <= Files /\ UNCHANGED <<account, life>>
      BY <1>1, <1>8, <2>1, IdleKnown, NextFileKnown DEF RestoreFile
    <3> QED
      BY <1>1, <2>1, <3>1, NextFileKnown DEF TaskKnown
  <2> QED
    BY <1>2, <1>8, <2>1 DEF RestoreFile
<1>9. CASE Mark
  <2>1. /\ task.next \in Members /\ life = "settled" /\ task' = PutBack(task.next)
        /\ account' = [account EXCEPT !.restoring = task.next] /\ UNCHANGED life
    BY <1>9 DEF Mark, PersistAccount, TaskKnown
  <2>2. account'.restoring = task.next
    BY <1>1, <2>1 DEF UsersConfig
  <2> QED
    BY <2>1, <2>2, TasksMove DEF TaskKnown
<1>10. CASE Adopt \/ Claim \/ Replace \/ Die
  BY <1>2, <1>10 DEF Adopt, Claim, Replace, Die, FreshUsers
<1>11. CASE Reload \/ Build \/ \E enabled \in BOOLEAN : SetStandDown(enabled)
  BY <1>3, <1>11 DEF Reload, Build, SetStandDown, TaskKnown
<1>12. CASE \/ \E person \in Persons : Arrive(person)
            \/ \E f \in Index, v \in Values, written \in BOOLEAN : Edit(f, v, written)
  BY <1>4, <1>12 DEF Arrive, Edit
<1> QED
  BY <1>5, <1>6, <1>7, <1>8, <1>9, <1>10, <1>11, <1>12 DEF UsersNext, DaemonStep

LEMMA HandOverKept ==
  UsersTypes /\ TaskKnown /\ HandOverDone /\ [UsersNext]_usersVars => HandOverDone'
<1> SUFFICES ASSUME UsersTypes, TaskKnown, HandOverDone, UsersNext PROVE HandOverDone'
  BY DEF HandOverDone, usersVars, Called, StillGivenUp, HasCopy
<1>1. /\ task \in Tasks /\ account \in UsersConfig /\ seen \in Persons /\ seated \in Persons
      /\ handedFor \in Persons
  BY DEF UsersTypes
<1>2. ASSUME handedFor' = NoOne \/ life' \notin {"settled", "running"} PROVE HandOverDone'
  BY <1>2 DEF HandOverDone
<1>3. CASE SettleLook
  <2> SUFFICES ASSUME handedFor' # NoOne, life' = "settled"
               PROVE  HandOverDone'
    BY <1>2, <1>3 DEF SettleLook
  <2>1. seen' = seated /\ UNCHANGED <<handedFor, seated, account, copies>> /\ seen' \in Persons
        /\ gaveUp' = StillGivenUp(seen') /\ task.step = "none"
    BY <1>1, <1>3 DEF SettleLook
  <2>2. CASE Called(seen') = "keep" /\ UNCHANGED task
    <3>1. Called(seated)' = "keep"
      BY <1>1, <2>1, <2>2 DEF Called, StillGivenUp, HasCopy
    <3> QED
      BY <2>1, <2>2, <3>1 DEF HandOverDone
  <2>3. CASE Undertake(seen', Called(seen') = "adopt") /\ Called(seen') \in {"adopt", "restore"}
    <3>1. seen' \in Members /\ (Called(seen') = "adopt") \in BOOLEAN
      BY <2>1, <2>3, CalledKnown
    <3>2. task'.step = "save" /\ task'.next = seen'
      BY <2>3, <3>1, UndertakeKnown
    <3> QED
      BY <2>1, <3>2 DEF HandOverDone
  <2> QED
    BY <1>3, <2>2, <2>3 DEF SettleLook
<1>4. CASE WatchLook
  <2> SUFFICES ASSUME handedFor' # NoOne, life' = "running"
               PROVE  HandOverDone'
    BY <1>2, <1>4 DEF WatchLook
  <2>1. /\ UNCHANGED <<handedFor, seated, account, copies>> /\ seen' \in {seen, seated} /\ life = "running"
        /\ gaveUp' = StillGivenUp(seen') /\ task.step = "none"
        /\ \/ Called(seen') = "keep" /\ UNCHANGED task
           \/ Called(seen') = "adopt" /\ Undertake(seen', TRUE)
    BY <1>4 DEF WatchLook, Look
  <2>2. seen' = seated /\ (handedFor = seated => Called(seated) = "keep")
    BY <2>1 DEF HandOverDone
  <2>3. CASE Called(seen') = "keep" /\ UNCHANGED task
    <3>1. Called(seated)' = "keep"
      BY <1>1, <2>1, <2>2, <2>3 DEF Called, StillGivenUp, HasCopy
    <3> QED
      BY <2>1, <2>2, <2>3, <3>1 DEF HandOverDone
  <2>4. CASE Called(seen') = "adopt" /\ Undertake(seen', TRUE)
    BY <2>1, <2>2, <2>4 DEF HandOverDone
  <2> QED
    BY <2>1, <2>3, <2>4
<1>5. CASE SaveFile \/ Adopt \/ Mark \/ RestoreFile \/ Claim
  <2> SUFFICES ASSUME handedFor # NoOne, life \in {"settled", "running"}
               PROVE  HandOverDone'
    BY <1>2, <1>5 DEF SaveFile, Adopt, Mark, RestoreFile, Claim
  <2>1. UNCHANGED <<handedFor, seated, seen, life>> /\ seen = seated /\ task.step # "none"
        /\ task.next \in Members
    BY <1>5 DEF SaveFile, Adopt, Mark, RestoreFile, Claim, HandOverDone, TaskKnown
  <2> SUFFICES ASSUME handedFor = seated
               PROVE  /\ task'.step = "none" => Called(seated)' = "keep"
                      /\ task'.step # "none" => task'.next = seated
    BY <2>1 DEF HandOverDone
  <2>2. task.next = seated /\ seated \in Members
    BY <2>1 DEF HandOverDone
  <2>3. CASE SaveFile
    <3>1. CASE task' = Next1
      BY <1>1, <2>2, <2>3, <3>1, NextFileKnown DEF SaveFile, Tasks
    <3>2. CASE task' = Idle /\ gaveUp' = task.next
      BY <2>2, <2>3, <3>2, IdleKnown, NoOneKnown DEF Called, StillGivenUp, SaveFile
    <3> QED
      BY <2>3, <3>1, <3>2 DEF SaveFile
  <2>4. CASE Adopt
    <3>1. account' = [account EXCEPT !.owner = task.next] /\ task' = Idle /\ UNCHANGED seated
      BY <2>4 DEF Adopt, PersistAccount
    <3>2. account'.owner = seated
      BY <1>1, <2>2, <3>1 DEF UsersConfig
    <3> QED
      BY <2>2, <3>1, <3>2, IdleKnown, NoOneKnown DEF Called
  <2>5. CASE Mark
    <3>1. task' = PutBack(task.next) /\ UNCHANGED seated
      BY <2>5 DEF Mark
    <3> QED
      BY <2>2, <3>1, TasksMove
  <2>6. CASE RestoreFile
    <3>1. CASE task' = Next1
      BY <1>1, <2>1, <2>2, <2>6, <3>1, NextFileKnown DEF RestoreFile
    <3>2. CASE task' = Idle
      <4>1. account'.restoring = seated /\ account'.restoring # NoOne
        BY <2>2, <2>6, NoOneKnown DEF RestoreFile, TaskKnown
      <4> QED
        BY <3>2, <4>1, IdleKnown DEF Called
    <3> QED
      BY <2>6, <3>1, <3>2 DEF RestoreFile
  <2>7. CASE Claim
    <3>1. /\ account' = [account EXCEPT !.owner = task.next, !.restoring = NoOne]
          /\ task' = Idle /\ UNCHANGED seated
      BY <2>7 DEF Claim, PersistAccount
    <3>2. account'.owner = seated
      BY <1>1, <2>2, <3>1 DEF UsersConfig
    <3> QED
      BY <2>2, <3>1, <3>2, IdleKnown, NoOneKnown DEF Called
  <2> QED
    BY <1>5, <2>3, <2>4, <2>5, <2>6, <2>7
<1>6. CASE Build \/ \E f \in Index, v \in Values, written \in BOOLEAN : Edit(f, v, written)
  <2>1. /\ UNCHANGED <<handedFor, seated, seen, task, account, copies, gaveUp>>
        /\ life' \in {"settled", "running"} => life \in {"settled", "running"}
    BY <1>6 DEF Build, Edit
  <2> QED
    BY <2>1 DEF HandOverDone, Called, StillGivenUp, HasCopy
<1>7. CASE FinishInterrupted \/ Reload \/ Replace \/ Die
  BY <1>2, <1>7 DEF FinishInterrupted, Reload, Replace, Die, FreshUsers
<1>8. CASE \/ \E person \in Persons : Arrive(person)
           \/ \E enabled \in BOOLEAN : SetStandDown(enabled)
  BY <1>2, <1>8 DEF Arrive, SetStandDown
<1> QED
  BY <1>3, <1>4, <1>5, <1>6, <1>7, <1>8 DEF UsersNext, DaemonStep

\* What a step has to keep of the settings: it never forgets that a process knew more.
LEMMA SettingsMove == UsersNext => (~astray' => ~astray)
  BY DEF UsersNext, DaemonStep, FinishInterrupted, SettleLook, Reload, Build, WatchLook, Replace,
         SaveFile, Adopt, Mark, RestoreFile, Claim, Die, FreshUsers, Arrive, Edit, SetStandDown

\* A step that begins or ends no file operation, and changes nothing of the files.
LEMMA SettingsStand ==
  ASSUME SettingsKnown, ~astray' => ~astray,
         UNCHANGED <<account.owner, account.restoring, copies, theirs, task>>, InUse' = InUse,
         task.step = "put" => UNCHANGED live
  PROVE  SettingsKnown'
  BY DEF SettingsKnown, CopiesStand, OwnSettings, HasCopy

\* Looks, and the operations they begin: what is in use stays, in the files if not in memory.
LEMMA LookSettings ==
  ASSUME UsersTypes, TaskKnown, SettingsKnown, FinishInterrupted \/ SettleLook \/ WatchLook
  PROVE  SettingsKnown'
<1>1. /\ task \in Tasks /\ account \in UsersConfig /\ seen \in Persons /\ seated \in Persons
      /\ live \in Contents /\ running \in Values \cup {Absent}
  BY DEF UsersTypes
<1>2. UNCHANGED <<account, copies, theirs, astray, running>> /\ task.step = "none"
  BY DEF FinishInterrupted, SettleLook, WatchLook, TaskKnown
<1>3. ASSUME UNCHANGED <<live, task>>, life # "running", life' # "running" PROVE SettingsKnown'
  BY <1>2, <1>3, SettingsStand DEF InUse
<1>4. ASSUME NEW adopts \in BOOLEAN, Undertake(seen', adopts), seen' \in Persons,
             Called(seen') \in {"adopt", "restore"},
             \/ life # "running" /\ UNCHANGED live
             \/ life = "running" /\ IF Aside(seen') THEN Remember ELSE UNCHANGED live
      PROVE  SettingsKnown'
  <2>1. seen' \in Members \ {account.owner} /\ account.restoring = NoOne
    BY <1>1, <1>4, CalledKnown
  <2>2. /\ task'.step = "save"
        /\ task'.at = IF Aside(seen') THEN 1 ELSE Files + 1
    BY <1>4, <2>1, UndertakeKnown
  <2>3. account.owner # NoOne => task'.at = 1 /\ Aside(seen')
    BY <2>1, <2>2 DEF Aside
  <2>4. account.owner # NoOne => InUse' = InUse
    BY <1>2, <1>4, <2>2, <2>3 DEF InUse, Remember
  <2>5. CopiesStand => CopiesStand'
    BY <1>2, <2>1, <2>2, <2>3, NoOneKnown DEF CopiesStand
  <2>6. OwnSettings => OwnSettings'
    BY <1>2, <2>2, <2>3, <2>4, NoOneKnown DEF OwnSettings
  <2> QED
    BY <1>2, <2>5, <2>6 DEF SettingsKnown
<1>5. CASE FinishInterrupted
  <2>1. CASE account.restoring # NoOne
    <3>1. account.restoring \in Members /\ task' = PutBack(account.restoring) /\ UNCHANGED live
      BY <1>1, <1>5, <2>1 DEF FinishInterrupted, UsersConfig
    <3>2. CopiesStand => CopiesStand'
      BY <1>2, <2>1, <3>1, TasksMove, NoOneKnown DEF CopiesStand, HasCopy
    <3> QED
      BY <1>2, <2>1, <3>2 DEF SettingsKnown, OwnSettings
  <2> QED
    BY <1>3, <1>5, <2>1 DEF FinishInterrupted
<1>6. CASE SettleLook
  <2>1. seen' \in Persons /\ life = "settling" /\ life' # "running" /\ UNCHANGED live
    BY <1>1, <1>6 DEF SettleLook, Look
  <2>2. CASE ~UNCHANGED task
    <3>1. /\ Undertake(seen', Called(seen') = "adopt") /\ Called(seen') \in {"adopt", "restore"}
          /\ (Called(seen') = "adopt") \in BOOLEAN
      BY <1>6, <2>2 DEF SettleLook
    <3> QED
      BY <1>4, <2>1, <3>1
  <2> QED
    BY <1>3, <2>1, <2>2
<1>7. CASE WatchLook
  <2>1. seen' \in Persons /\ life = "running"
    BY <1>1, <1>7 DEF WatchLook, Look
  <2>2. CASE UNCHANGED <<life, live, task>>
    BY <1>2, <2>2, SettingsStand DEF InUse
  <2>3. CASE Called(seen') = "adopt" /\ Undertake(seen', TRUE)
             /\ IF Aside(seen') THEN Remember ELSE UNCHANGED live
    BY <1>4, <2>1, <2>3
  <2>4. CASE life' = "leaving" /\ Remember /\ UNCHANGED task
    <3>1. InUse' = InUse
      BY <1>2, <2>1, <2>4 DEF InUse, Remember
    <3> QED
      BY <1>2, <2>4, <3>1, SettingsStand
  <2> QED
    BY <1>7, <2>2, <2>3, <2>4 DEF WatchLook
<1> QED
  BY <1>5, <1>6, <1>7

\* The process begins anew, having lost what users.json does not say, or begins its modules.
LEMMA LifeSettings ==
  ASSUME UsersTypes, TaskKnown, SettingsKnown, Replace \/ Die \/ Build
  PROVE  SettingsKnown'
<1>1. /\ task \in Tasks /\ account \in UsersConfig /\ live \in Contents
      /\ running \in Values \cup {Absent} /\ theirs \in [Members -> Contents]
      /\ (account.owner # NoOne => account.owner \in Members)
  BY DEF UsersTypes, UsersConfig
<1>2. ASSUME astray' = (astray \/ KnewMore), account' = accountFile, ~astray'
      PROVE  ~astray /\ UNCHANGED <<account.owner, account.restoring>>
  BY <1>2 DEF KnewMore
<1>3. CASE Replace
  <2> SUFFICES ASSUME ~astray' PROVE SettingsKnown'
    BY DEF SettingsKnown
  <2>1. /\ UNCHANGED <<live, copies, theirs>> /\ task.step = "none" /\ task' = Idle
        /\ life = "leaving" /\ life' = "starting"
        /\ ~astray /\ UNCHANGED <<account.owner, account.restoring>>
    BY <1>2, <1>3 DEF Replace, FreshUsers, TaskKnown
  <2>2. InUse' = InUse
    BY <2>1 DEF InUse
  <2> QED
    BY <2>1, <2>2, IdleKnown DEF SettingsKnown, CopiesStand, OwnSettings, HasCopy
<1>4. CASE Die
  <2> SUFFICES ASSUME ~astray' PROVE SettingsKnown'
    BY DEF SettingsKnown
  <2>1. /\ UNCHANGED copies /\ task' = Idle /\ life' = "starting"
        /\ ~astray /\ UNCHANGED <<account.owner, account.restoring>>
        /\ theirs' = IF account.owner # NoOne /\ account.restoring = NoOne
                       THEN [theirs EXCEPT ![account.owner] = live'] ELSE theirs
    BY <1>2, <1>4 DEF Die, FreshUsers
  <2>2. InUse' = live' /\ task'.step = "none"
    BY <2>1, IdleKnown DEF InUse
  <2>3. CopiesStand'
    BY <1>1, <2>1, <2>2 DEF SettingsKnown, CopiesStand, HasCopy
  <2>4. OwnSettings'
    BY <1>1, <2>1, <2>2 DEF OwnSettings
  <2> QED
    BY <2>3, <2>4 DEF SettingsKnown
<1>5. CASE Build
  <2>1. PICK mode \in Values \cup {Absent} :
          /\ running' = mode
          /\ theirs' = IF account.owner # NoOne /\ account.restoring = NoOne
                         THEN [theirs EXCEPT ![account.owner] = [live EXCEPT ![1] = mode]]
                         ELSE theirs
    BY <1>1, <1>5, NoOneKnown DEF Build, Contents
  <2>2. /\ UNCHANGED <<account, live, copies, astray, task>> /\ task.step = "none"
        /\ life' = "running"
    BY <1>5 DEF Build
  <2>3. InUse' = [live EXCEPT ![1] = mode]
    BY <2>1, <2>2 DEF InUse
  <2>4. CopiesStand => CopiesStand'
    BY <1>1, <2>1, <2>2 DEF CopiesStand, HasCopy
  <2>5. OwnSettings'
    BY <1>1, <2>1, <2>2, <2>3 DEF OwnSettings
  <2> QED
    BY <2>2, <2>4, <2>5 DEF SettingsKnown
<1> QED
  BY <1>3, <1>4, <1>5

\* A file is put aside, or the owner's last settings stay where they are.
LEMMA SaveSettings ==
  ASSUME UsersTypes, TaskKnown, SettingsKnown, SaveFile
  PROVE  SettingsKnown'
<1>1. /\ task \in Tasks /\ account \in UsersConfig /\ live \in Contents
      /\ running \in Values \cup {Absent}
      /\ theirs \in [Members -> Contents] /\ copies \in [Members -> Contents]
  BY DEF UsersTypes
<1>2. /\ task.step = "save" /\ task.at \in Index /\ account.owner \in Members
      /\ account.owner # NoOne /\ account.restoring = NoOne
      /\ UNCHANGED <<account, live, running, life, astray>>
  <2>1. task.step = "save" /\ task.at <= Files
    BY DEF SaveFile
  <2>2. Aside(task.next)
    BY <1>1, <2>1, NextFileKnown, NoOneKnown DEF TaskKnown
  <2> QED
    BY <1>1, <2>1, <2>2, NextFileKnown DEF SaveFile, TaskKnown, Aside, UsersConfig
<1>3. task.at \in Nat /\ Index \subseteq Nat
  BY <1>2, NoOneKnown
<1>4. CASE UNCHANGED theirs /\ task' = Next1
           /\ copies' = [copies EXCEPT ![account.owner][task.at] = live[task.at]]
  <2>1. task'.step = "save" /\ task'.at = task.at + 1 /\ InUse' = live /\ InUse = live
    BY <1>1, <1>2, <1>3, <1>4, NextFileKnown, NoOneKnown DEF InUse
  <2>2. /\ \A u \in Members : u # account.owner => copies'[u] = copies[u]
        /\ \A f \in Index : copies'[account.owner][f] =
             IF f = task.at THEN live[f] ELSE copies[account.owner][f]
    BY <1>1, <1>2, <1>4 DEF Contents
  <2>3. \A f \in Index : f < task.at + 1 => f < task.at \/ f = task.at
    BY <1>3
  <2>4. CopiesStand /\ OwnSettings /\ ~astray => CopiesStand'
    <3> SUFFICES ASSUME CopiesStand, OwnSettings, ~astray PROVE CopiesStand'
      OBVIOUS
    <3>1. live[task.at] = theirs[account.owner][task.at]
      BY <1>2, <1>3, <2>1 DEF OwnSettings
    <3>2. \A f \in Index : f < task.at => copies[account.owner][f] = theirs[account.owner][f]
      BY <1>2 DEF CopiesStand
    <3>3. \A f \in Index : f < task'.at => copies'[account.owner][f] = theirs[account.owner][f]
      BY <2>1, <2>2, <2>3, <3>1, <3>2
    <3>4. \A u \in Members : u # account.owner => copies'[u] = theirs[u]
      BY <1>2, <2>2 DEF CopiesStand
    <3> QED
      BY <1>2, <1>4, <2>1, <3>3, <3>4 DEF CopiesStand
  <2>5. OwnSettings => OwnSettings'
    <3>1. \A f \in Index : f < task.at => f < task.at + 1
      BY <1>3
    <3> QED
      BY <1>2, <1>4, <2>1, <3>1 DEF OwnSettings
  <2> QED
    BY <1>2, <2>4, <2>5 DEF SettingsKnown
<1>5. CASE /\ UNCHANGED copies /\ task' = Idle
           /\ theirs' = [theirs EXCEPT ![account.owner] =
                           IF life = "running" THEN [live EXCEPT ![1] = running] ELSE live]
  <2>1. task'.step = "none"
        /\ InUse' = IF life = "running" THEN [live EXCEPT ![1] = running] ELSE live
    BY <1>2, <1>5, IdleKnown DEF InUse
  <2>2. CopiesStand => CopiesStand'
    BY <1>1, <1>2, <1>5, <2>1 DEF CopiesStand
  <2>3. OwnSettings'
    BY <1>1, <1>2, <1>5, <2>1 DEF OwnSettings
  <2> QED
    BY <1>2, <2>2, <2>3 DEF SettingsKnown
<1> QED
  BY <1>4, <1>5 DEF SaveFile

\* The previous owner put aside: somebody else's the settings become, or the mark is set.
LEMMA OwnerSettings ==
  ASSUME UsersTypes, TaskKnown, SettingsKnown, Adopt \/ Mark
  PROVE  SettingsKnown'
<1>1. /\ task \in Tasks /\ account \in UsersConfig /\ live \in Contents
      /\ theirs \in [Members -> Contents] /\ copies \in [Members -> Contents]
  BY DEF UsersTypes
<1>2. /\ task.step = "save" /\ task.at > Files /\ task.next \in Members \ {account.owner}
      /\ account.restoring = NoOne /\ UNCHANGED <<live, copies, life, running, astray>>
  BY DEF Adopt, Mark, TaskKnown
<1>3. task.next # NoOne /\ (account.owner # NoOne => account.owner \in Members)
  BY <1>1, <1>2, NoOneKnown DEF UsersConfig
<1>4. CopiesStand => \A u \in Members : copies[u] = theirs[u]
  <2> SUFFICES ASSUME CopiesStand, NEW u \in Members PROVE copies[u] = theirs[u]
    OBVIOUS
  <2>1. CASE u # account.owner
    BY <2>1 DEF CopiesStand
  <2>2. CASE u = account.owner
    <3>1. \A f \in Index : f < task.at
      BY <1>1, <1>2, NoOneKnown DEF Tasks
    <3>2. \A f \in Index : copies[u][f] = theirs[u][f]
      BY <1>2, <2>2, <3>1, NoOneKnown DEF CopiesStand
    <3> QED
      BY <1>1, <3>2 DEF Contents
  <2> QED
    BY <2>1, <2>2
<1>5. CASE Adopt
  <2>1. /\ account' = [account EXCEPT !.owner = task.next] /\ task' = Idle
        /\ theirs' = [theirs EXCEPT ![task.next] =
                        IF life = "running" THEN [live EXCEPT ![1] = running] ELSE live]
    BY <1>5 DEF Adopt, PersistAccount
  <2>2. account'.owner = task.next /\ account'.restoring = NoOne /\ task'.step = "none"
    BY <1>1, <1>2, <2>1, IdleKnown DEF UsersConfig
  <2>3. InUse' = IF life = "running" THEN [live EXCEPT ![1] = running] ELSE live
    BY <1>2, <2>2 DEF InUse
  <2>4. CopiesStand => CopiesStand'
    BY <1>1, <1>2, <1>4, <2>1, <2>2 DEF CopiesStand
  <2>5. OwnSettings'
    BY <1>1, <1>2, <2>1, <2>2, <2>3 DEF OwnSettings
  <2> QED
    BY <1>2, <2>4, <2>5 DEF SettingsKnown
<1>6. CASE Mark
  <2>1. /\ account' = [account EXCEPT !.restoring = task.next] /\ task' = PutBack(task.next)
        /\ UNCHANGED theirs /\ HasCopy(task.next)
    BY <1>2, <1>6 DEF Mark, PersistAccount, TaskKnown
  <2>2. account'.owner = account.owner /\ account'.restoring = task.next
    BY <1>1, <2>1 DEF UsersConfig
  <2>3. task'.step = "put" /\ task'.at = 1
    BY <1>2, <2>1, TasksMove
  <2>4. CopiesStand => CopiesStand'
    BY <1>2, <1>3, <1>4, <2>1, <2>2, <2>3, NoOneKnown DEF CopiesStand, HasCopy
  <2>5. OwnSettings'
    BY <1>3, <2>2 DEF OwnSettings
  <2> QED
    BY <1>2, <2>4, <2>5 DEF SettingsKnown
<1> QED
  BY <1>5, <1>6

\* The files put back, one by one, and theirs they are once all of them are.
LEMMA RestoreSettings ==
  ASSUME UsersTypes, TaskKnown, SettingsKnown, RestoreFile \/ Claim
  PROVE  SettingsKnown'
<1>1. /\ task \in Tasks /\ account \in UsersConfig /\ live \in Contents
      /\ theirs \in [Members -> Contents] /\ copies \in [Members -> Contents]
  BY DEF UsersTypes
<1>2. /\ task.step = "put" /\ task.next \in Members /\ task.next = account.restoring
      /\ UNCHANGED <<copies, life, theirs, astray>> /\ life \in {"settling", "settled"}
      /\ task.next # NoOne
  BY NoOneKnown DEF RestoreFile, Claim, TaskKnown
<1>3. CASE RestoreFile
  <2>1. UNCHANGED account
    BY <1>3 DEF RestoreFile
  <2>2. CASE task' = Idle /\ UNCHANGED live
    BY <1>2, <2>1, <2>2, IdleKnown DEF SettingsKnown, CopiesStand, OwnSettings, HasCopy
  <2>3. CASE task' = Next1 /\ live' = [live EXCEPT ![task.at] = copies[task.next][task.at]]
    <3>1. /\ task'.step = "put" /\ task'.at = task.at + 1 /\ task'.next = task.next
          /\ task.at \in Index
      BY <1>1, <1>2, <1>3, <2>3, NextFileKnown DEF RestoreFile
    <3>2. \A f \in Index : f < task.at + 1 => f < task.at \/ f = task.at
      BY <3>1, NoOneKnown
    <3>3. CopiesStand => \A f \in Index : f < task'.at => live'[f] = copies[task.next][f]
      BY <1>1, <1>2, <2>3, <3>1, <3>2 DEF CopiesStand, Contents
    <3>4. CopiesStand => CopiesStand'
      BY <1>2, <2>1, <3>1, <3>3 DEF CopiesStand, HasCopy
    <3> QED
      BY <1>2, <2>1, <3>4 DEF SettingsKnown, OwnSettings
  <2> QED
    BY <1>3, <2>2, <2>3 DEF RestoreFile
<1>4. CASE Claim
  <2>1. /\ account' = [account EXCEPT !.owner = task.next, !.restoring = NoOne] /\ task' = Idle
        /\ UNCHANGED live /\ task.at > Files
    BY <1>4 DEF Claim, PersistAccount
  <2>2. /\ account'.owner = task.next /\ account'.restoring = NoOne /\ task'.step = "none"
        /\ InUse' = live
    BY <1>1, <1>2, <2>1, IdleKnown DEF UsersConfig, InUse
  <2>3. \A f \in Index : f < task.at
    BY <1>1, <2>1, NoOneKnown DEF Tasks
  <2>4. CopiesStand => CopiesStand' /\ OwnSettings'
    BY <1>2, <2>1, <2>2, <2>3 DEF CopiesStand, OwnSettings
  <2> QED
    BY <1>2, <2>4 DEF SettingsKnown
<1> QED
  BY <1>3, <1>4

\* A client's change is its owner's as long as it is in what will be put aside.
LEMMA EditSettings ==
  ASSUME UsersTypes, TaskKnown, SettingsKnown,
         NEW f \in Index, NEW v \in Values, NEW written \in BOOLEAN, Edit(f, v, written)
  PROVE  SettingsKnown'
<1>1. /\ task \in Tasks /\ account \in UsersConfig /\ live \in Contents
      /\ running \in Values \cup {Absent} /\ task.at \in Nat
      /\ theirs \in [Members -> Contents] /\ copies \in [Members -> Contents]
  BY NoOneKnown DEF UsersTypes, Tasks
<1>2. /\ UNCHANGED <<account, copies, life, task, astray>> /\ life \in {"running", "leaving"}
      /\ live' = (IF written THEN [live EXCEPT ![f] = v] ELSE live)
      /\ running' = (IF f = 1 THEN v ELSE running)
      /\ theirs' = (IF Counts(f, written) THEN [theirs EXCEPT ![account.owner][f] = v] ELSE theirs)
      /\ (written \/ f = 1) /\ task.step # "put"
  BY DEF Edit, TaskKnown
<1>3. \A u \in Members : u # account.owner => theirs'[u] = theirs[u]
  BY <1>1, <1>2
<1>4. ASSUME account.owner # NoOne, account.restoring = NoOne
      PROVE  /\ account.owner \in Members
             /\ \A g \in Index : theirs'[account.owner][g] =
                  IF g = f /\ Counts(f, written) THEN v ELSE theirs[account.owner][g]
  BY <1>1, <1>2, <1>4 DEF UsersConfig, Contents
<1>5. ~Counts(f, written) => UNCHANGED theirs
  BY <1>2
<1>6. CopiesStand => CopiesStand'
  <2> SUFFICES ASSUME CopiesStand PROVE CopiesStand'
    OBVIOUS
  <2>1. \A u \in Members : u # account.owner \/ account.restoring # NoOne => copies[u] = theirs'[u]
    BY <1>3, <1>5 DEF CopiesStand, Counts
  <2>2. ASSUME task.step = "save", account.owner # NoOne, NEW g \in Index, g < task.at
        PROVE  copies[account.owner][g] = theirs'[account.owner][g]
    <3>1. account.restoring = NoOne
      BY <2>2 DEF TaskKnown
    <3>2. ~(g = f /\ Counts(f, written))
      BY <1>1, <2>2, NoOneKnown DEF Counts
    <3> QED
      BY <1>4, <2>2, <3>1, <3>2 DEF CopiesStand
  <2> QED
    BY <1>2, <2>1, <2>2 DEF CopiesStand, HasCopy
<1>7. OwnSettings /\ ~astray => OwnSettings'
  <2> SUFFICES ASSUME OwnSettings, ~astray, account.owner # NoOne, account.restoring = NoOne,
                      NEW g \in Index, ~(task.step = "save" /\ g < task.at)
               PROVE  InUse'[g] = theirs'[account.owner][g]
    BY <1>2 DEF OwnSettings
  <2>1. InUse[g] = theirs[account.owner][g]
    BY DEF OwnSettings
  <2>2. life = "leaving" => task.step = "none"
    BY DEF TaskKnown
  <2>3. InUse[g] = IF life = "running" /\ task.step # "save" /\ g = 1 THEN running ELSE live[g]
    BY <1>1 DEF InUse, Contents
  <2>4. InUse'[g] = IF life = "running" /\ task.step # "save" /\ g = 1 THEN running' ELSE live'[g]
    BY <1>1, <1>2 DEF InUse, Contents
  <2>5. live'[g] = IF written /\ g = f THEN v ELSE live[g]
    BY <1>1, <1>2 DEF Contents
  <2>6. CASE g = f
    <3>1. Counts(f, written) <=> (task.step = "save" => written) /\ (life = "leaving" => written)
      BY <1>1, <2>6, NoOneKnown DEF Counts
    <3> QED
      BY <1>2, <1>4, <2>1, <2>2, <2>3, <2>4, <2>5, <2>6, <3>1
  <2>7. CASE g # f
    BY <1>2, <1>4, <2>1, <2>3, <2>4, <2>5, <2>7
  <2> QED
    BY <2>6, <2>7
<1> QED
  BY <1>2, <1>6, <1>7 DEF SettingsKnown

LEMMA SettingsKept ==
  UsersTypes /\ TaskKnown /\ SettingsKnown /\ [UsersNext]_usersVars => SettingsKnown'
<1> SUFFICES ASSUME UsersTypes, TaskKnown, SettingsKnown, [UsersNext]_usersVars
             PROVE  SettingsKnown'
  OBVIOUS
<1>1. account \in UsersConfig
  BY DEF UsersTypes
<1>2. CASE UNCHANGED usersVars
  BY <1>2, SettingsStand DEF usersVars, InUse
<1>3. CASE FinishInterrupted \/ SettleLook \/ WatchLook
  BY <1>3, LookSettings
<1>4. CASE Replace \/ Die \/ Build
  BY <1>4, LifeSettings
<1>5. CASE SaveFile \/ Adopt \/ Mark \/ RestoreFile \/ Claim
  BY <1>5, SaveSettings, OwnerSettings, RestoreSettings
<1>6. CASE \E f \in Index, v \in Values, written \in BOOLEAN : Edit(f, v, written)
  BY <1>6, EditSettings
<1>7. CASE \E enabled \in BOOLEAN : SetStandDown(enabled)
  <2>1. /\ UNCHANGED <<copies, theirs, live, running, life, task, astray>>
        /\ \E enabled \in BOOLEAN : account' = [account EXCEPT !.standDown = enabled]
             \/ UNCHANGED account
    BY <1>7 DEF SetStandDown, PersistAccount
  <2>2. UNCHANGED <<account.owner, account.restoring>>
    BY <1>1, <2>1 DEF UsersConfig
  <2> QED
    BY <2>1, <2>2, SettingsStand DEF InUse
<1>8. CASE Reload
  <2>1. /\ UNCHANGED <<copies, theirs, live, running, task, astray>>
        /\ account' = [account EXCEPT !.standDown = accountFile.standDown]
        /\ life # "running" /\ life' # "running"
    BY <1>8 DEF Reload
  <2>2. UNCHANGED <<account.owner, account.restoring>>
    BY <1>1, <2>1 DEF UsersConfig
  <2> QED
    BY <2>1, <2>2, SettingsStand DEF InUse
<1>9. CASE \E person \in Persons : Arrive(person)
  BY <1>9, SettingsStand DEF Arrive, InUse
<1> QED
  BY <1>2, <1>3, <1>4, <1>5, <1>6, <1>7, <1>8, <1>9 DEF UsersNext, DaemonStep

LEMMA UsersKnownAtFirst == UsersInit => UsersKnown
<1> SUFFICES ASSUME UsersInit PROVE UsersKnown
  OBVIOUS
<1>1. account.owner = NoOne /\ account.restoring = NoOne /\ task.step = "none"
      /\ life = "starting" /\ handedFor = NoOne /\ theirs = copies /\ account.standDown = FALSE
  BY IdleKnown DEF UsersInit
<1>2. UsersTypes
  <2>1. account \in UsersConfig /\ accountFile \in UsersConfig
    BY DEF UsersInit, UsersConfig
  <2>2. live \in Contents /\ live[1] \in Values \cup {Absent}
    BY NoOneKnown DEF UsersInit, Contents
  <2>3. copies \in [Members -> Contents]
    BY DEF UsersInit, Contents
  <2>4. 0 \in 0..MaxEdits /\ 0 \in 0..MaxFaults /\ 0 \in 0..MaxLives
    BY UsersAssumption
  <2> QED
    BY <2>1, <2>2, <2>3, <2>4, IdleKnown DEF UsersInit, UsersTypes, Persons
<1>3. TaskKnown /\ HandOverDone
  BY <1>1 DEF TaskKnown, HandOverDone
<1>4. SettingsKnown
  BY <1>1 DEF SettingsKnown, CopiesStand, OwnSettings
<1> QED
  BY <1>2, <1>3, <1>4 DEF UsersKnown

LEMMA UsersKnownKept == UsersKnown /\ [UsersNext]_usersVars => UsersKnown'
  BY UsersTypesKept, TaskKnownKept, HandOverKept, SettingsKept DEF UsersKnown

LEMMA UsersAlwaysKnown == UsersSpec => []UsersKnown
  BY UsersKnownAtFirst, UsersKnownKept, PTL DEF UsersSpec

\* Whatever is refused and whenever the process dies, the settings in use are what their owner
\* last had, unless a process ended with users.json not saying whose they were
\* (UsersModule::restore, put_back, Profiles::save).
THEOREM SettingsAlwaysOwn == UsersSpec => []OwnSettings
<1>1. UsersKnown => OwnSettings
  BY DEF UsersKnown, SettingsKnown, OwnSettings
<1> QED
  BY <1>1, UsersAlwaysKnown, PTL

\* Whoever the last hand-over was for is being served, so no look hands over to them again.
LEMMA HandsOverOnce ==
  UsersKnown /\ [UsersNext]_usersVars =>
    [life' = "leaving" /\ life = "running" => handedFor # seen']_usersVars
<1> SUFFICES ASSUME UsersKnown, UsersNext, life = "running", life' = "leaving",
                    handedFor = seen'
             PROVE  FALSE
  BY DEF usersVars
<1>1. WatchLook
  BY DEF UsersNext, DaemonStep, FinishInterrupted, SettleLook, Reload, Build, Replace, SaveFile,
         Adopt, Mark, RestoreFile, Claim, Die, FreshUsers, Arrive, Edit, SetStandDown
<1>2. /\ task.step = "none" /\ seen' \in {seen, seated}
      /\ Called(seen') \in {"restore", "stand down"}
  BY <1>1 DEF WatchLook, Look
<1>3. seen' # NoOne
  BY <1>2 DEF Called
<1>4. seen = seated /\ Called(seated) = "keep"
  BY <1>2, <1>3 DEF UsersKnown, HandOverDone
<1> QED
  BY <1>2, <1>4

\* The daemon replaces itself once for an arrival (State::gave_up_on, UsersModule::watch).
THEOREM OneHandOverOnly == UsersSpec => OneHandOver
  BY UsersAlwaysKnown, HandsOverOnce, PTL DEF UsersSpec, OneHandOver

(***************************************************************************)
(* The four parts side by side, as the run has them.                        *)
(***************************************************************************)

\* What each part keeps it keeps beside the others, which do not move while it does.
SessionKnown == UsersKnown /\ NetworkKnown /\ EventsKnown /\ InstallerKnown

LEMMA SessionKnownKept == SessionKnown /\ [ServicesNext]_allVars => SessionKnown'
<1> SUFFICES ASSUME SessionKnown, [ServicesNext]_allVars PROVE SessionKnown'
  OBVIOUS
<1>1. /\ [UsersNext]_usersVars /\ [NetworkNext]_networkVars
      /\ [EventsNext]_eventsVars /\ [InstallerNext]_installerVars
  BY DEF ServicesNext, allVars
<1> QED
  BY <1>1, UsersKnownKept, NetworkKnownKept, EventsKnownKept, InstallerKnownKept DEF SessionKnown

LEMMA SessionAlwaysKnown == ServicesSpec => []SessionKnown
<1>1. ServicesInit => SessionKnown
  BY UsersKnownAtFirst, NetworkKnownAtFirst, EventsKnownAtFirst, InstallerKnownAtFirst
     DEF ServicesInit, SessionKnown
<1> QED
  BY <1>1, SessionKnownKept, PTL DEF ServicesSpec

\* Each of the four parts is always in a state its code has names for.
THEOREM SessionTypesAlways == ServicesSpec => []SessionTypes
<1>1. SessionKnown => SessionTypes
  BY DEF SessionKnown, SessionTypes, UsersKnown, NetworkKnown, EventsKnown, BusKnown, ReaderKnown,
         WidgetKnown, EventsTypes, InstallerKnown
<1> QED
  BY <1>1, SessionAlwaysKnown, PTL

\* What is proved of each part alone holds of the specification the run explores.
THEOREM SessionKeepsItsWord ==
  ServicesSpec => /\ [](OwnSettings /\ OffMeansOff /\ EventsAccounted /\ RestoreMeansStock)
                  /\ OneHandOver
<1>1. SessionKnown => OwnSettings /\ OffMeansOff /\ EventsAccounted /\ RestoreMeansStock
  <2> SUFFICES ASSUME SessionKnown
               PROVE  OwnSettings /\ OffMeansOff /\ EventsAccounted /\ RestoreMeansStock
    OBVIOUS
  <2>1. OwnSettings
    BY DEF SessionKnown, UsersKnown, SettingsKnown, OwnSettings
  <2>2. OffMeansOff
    BY KnownMeansOff DEF SessionKnown, NetworkKnown
  <2>3. EventsAccounted
    BY DEF SessionKnown, EventsKnown, ReaderKnown, HeardKnown, EventsAccounted
  <2>4. RestoreMeansStock
    BY DEF SessionKnown, InstallerKnown, StockKnown, RestoreMeansStock
  <2> QED
    BY <2>1, <2>2, <2>3, <2>4
<1>2. SessionKnown => UsersKnown
  BY DEF SessionKnown
<1>3. [ServicesNext]_allVars => [UsersNext]_usersVars
  BY DEF ServicesNext, allVars
<1> QED
  BY <1>1, <1>2, <1>3, SessionAlwaysKnown, HandsOverOnce, PTL DEF ServicesSpec, OneHandOver
===============================================================================
