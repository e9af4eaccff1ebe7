------------------------------ MODULE Installer ------------------------------
(***************************************************************************)
(* Replacing the distribution's hp-wmi by Pyren's, and putting it back.     *)
(* A plan is a list of steps; a required step that fails ends the run, an   *)
(* optional one does not, and the process may end between any two of them.  *)
(* What is on disk is what the next run starts from: the modules in the     *)
(* directory a distribution ships to, the copies kept of them, the module   *)
(* DKMS builds under updates/.                                              *)
(*                                                                         *)
(* A distribution ships the module compressed ("zst") or not ("ko"); Pyren  *)
(* installs it uncompressed.  A copy is whole or is not there.              *)
(***************************************************************************)
EXTENDS Naturals, FiniteSets

Names == {"ko", "zst"}
Modules == {"none", "stock", "ours"}
Strategies == {"dkms", "hooks"}

VARIABLES
  files,      \* the modules in the stock directory
  backups,    \* and those under the same name with .bak
  updates,    \* DKMS's module
  registered, \* DKMS knows ours
  hook,       \* a kernel-upgrade hook is installed
  index,      \* what depmod found to load
  loaded,     \* the module that runs
  plan,       \* the plan in progress
  report,     \* how the last one ended
  cutShort    \* history: a restore ended between bringing the stock module back and taking ours away

installerVars == <<files, backups, updates, registered, hook, index, loaded, plan, report,
                   cutShort>>

NoPlan == [action |-> "none", strategy |-> "hooks", at |-> "idle", list |-> {}, holdsStock |-> FALSE,
           copied |-> {}, back |-> {}, reload |-> TRUE]

Stages == {"idle", "retire", "build", "switch", "list", "backUp", "install", "clear", "putBack",
           "takeAway", "depmod", "unload", "load"}
Plans == [action : {"none", "install", "restore"}, strategy : Strategies, at : Stages,
          list : SUBSET Names, holdsStock : BOOLEAN, copied : SUBSET Names,
          back : SUBSET Names, reload : BOOLEAN]

\* The types of the installer's variables.
InstallerTypes ==
  /\ files \in [Names -> Modules] /\ backups \in [Names -> Modules]
  /\ updates \in {"none", "ours"}
  /\ registered \in BOOLEAN /\ hook \in BOOLEAN
  /\ index \in Names \cup {"updates", "none"}
  /\ loaded \in Modules
  /\ plan \in Plans
  /\ report \in {"none", "installed", "restored", "failed"}
  /\ cutShort \in BOOLEAN

InstallerInit ==
  /\ \E n \in Names : files = [m \in Names |-> IF m = n THEN "stock" ELSE "none"] /\ index = n
  /\ backups = [n \in Names |-> "none"]
  /\ updates = "none" /\ registered = FALSE /\ hook = FALSE
  /\ loaded = "stock"
  /\ plan = NoPlan /\ report = "none"
  /\ cutShort = FALSE

-----------------------------------------------------------------------------

Present == {n \in Names : files[n] # "none"}
Copies == {n \in Names : backups[n] # "none"}

\* depmod: updates/ before the rest, the uncompressed module before the compressed one.
Found ==
  IF updates # "none" THEN "updates"
  ELSE IF files["ko"] # "none" THEN "ko" ELSE IF files["zst"] # "none" THEN "zst" ELSE "none"

GoesOn(at) == plan' = [plan EXCEPT !.at = at]

disk == <<files, backups, updates, registered, hook>>
rest == <<index, loaded>>

\* A required step failed: the steps after it are skipped.
Fails == plan' = NoPlan /\ report' = "failed"

BeginPlan(action, strategy) ==
  /\ plan.at = "idle"
  /\ plan' = [NoPlan EXCEPT !.action = action, !.strategy = strategy, !.at = "retire"]
  /\ report' = "none"
  /\ UNCHANGED <<disk, index, loaded, cutShort>>

\* dkms remove: before a build over an older registration, and first of a restore.  Optional:
\* where it fails or is declined the plan goes on, and DKMS keeps its module.
Retire ==
  /\ plan.at = "retire"
  /\ LET after == IF plan.action = "install" THEN "build" ELSE "clear"
         due == registered /\ (plan.action = "restore" \/ plan.strategy = "dkms")
     IN /\ GoesOn(after)
        /\ \/ due /\ registered' = FALSE /\ updates' = "none"
           \/ UNCHANGED <<registered, updates>>
  /\ UNCHANGED <<files, backups, hook, rest, report, cutShort>>

\* The sources staged and patched, dkms add and build, or make.
BuildModule ==
  /\ plan.at = "build"
  /\ registered' = (registered \/ plan.strategy = "dkms")
  /\ \/ (plan.strategy = "dkms" => ~registered) /\ GoesOn("switch") /\ UNCHANGED report
     \/ Fails
  /\ UNCHANGED <<files, backups, updates, hook, rest, cutShort>>

\* The other strategy's leftovers, optional.
Switch ==
  /\ plan.at = "switch" /\ GoesOn("list")
  /\ \/ plan.strategy = "dkms" /\ hook' = FALSE /\ UNCHANGED <<registered, updates>>
     \/ plan.strategy = "hooks" /\ registered' = FALSE /\ updates' = "none" /\ UNCHANGED hook
     \/ UNCHANGED <<hook, registered, updates>>
  /\ UNCHANGED <<files, backups, rest, report, cutShort>>

\* backup_in: what is in the stock directory is the distribution's when no copy is there yet.
HoldsStock == Copies = {}

\* backup_driver, its list made.
ListModules ==
  /\ plan.at = "list"
  /\ plan' = [plan EXCEPT !.at = "backUp", !.list = Present, !.holdsStock = HoldsStock]
  /\ UNCHANGED <<disk, rest, report, cutShort>>

\* One module: copied if it is the distribution's, then removed.  Either may be refused.
BackUp(n) ==
  /\ plan.at = "backUp" /\ n \in plan.list
  /\ \/ /\ plan.holdsStock /\ n \notin plan.copied
        /\ \/ /\ backups' = [backups EXCEPT ![n] = files[n]]
              /\ plan' = [plan EXCEPT !.copied = @ \cup {n}] /\ UNCHANGED report
           \/ Fails /\ UNCHANGED backups
        /\ UNCHANGED files
     \/ /\ ~plan.holdsStock \/ n \in plan.copied
        /\ \/ /\ files' = [files EXCEPT ![n] = "none"]
              /\ plan' = [plan EXCEPT !.list = @ \ {n}] /\ UNCHANGED report
           \/ Fails /\ UNCHANGED files
        /\ UNCHANGED backups
  /\ UNCHANGED <<updates, registered, hook, rest, cutShort>>

\* Whatever DKMS left under updates/ is removed too.
BackedUp ==
  /\ plan.at = "backUp" /\ plan.list = {}
  /\ \/ updates' = "none" /\ GoesOn("install") /\ UNCHANGED report
     \/ updates # "none" /\ Fails /\ UNCHANGED updates
  /\ UNCHANGED <<files, backups, registered, hook, rest, cutShort>>

\* dkms install; or install_module, then install_hook.
Install ==
  /\ plan.at = "install"
  /\ \/ /\ GoesOn("depmod") /\ UNCHANGED report
        /\ IF plan.strategy = "dkms"
             THEN updates' = "ours" /\ UNCHANGED <<files, hook>>
             ELSE files' = [files EXCEPT !["ko"] = "ours"] /\ hook' = TRUE /\ UNCHANGED updates
     \/ Fails /\ UNCHANGED <<files, updates, hook>>
     \/ plan.strategy = "hooks" /\ files' = [files EXCEPT !["ko"] = "ours"] /\ Fails
        /\ UNCHANGED <<updates, hook>>
  /\ UNCHANGED <<backups, registered, rest, cutShort>>

\* remove_sources, remove_hooks, remove_modprobe_conf; then the list of restore_in.
Clear ==
  /\ plan.at = "clear"
  /\ \/ hook' = FALSE /\ plan' = [plan EXCEPT !.at = "putBack", !.list = Copies] /\ UNCHANGED report
     \/ Fails /\ UNCHANGED hook
  /\ UNCHANGED <<files, backups, updates, registered, rest, cutShort>>

\* restore_in, one copy renamed back.
BringBack(n) ==
  /\ plan.at = "putBack" /\ n \in plan.list
  /\ \/ /\ files' = [files EXCEPT ![n] = backups[n]]
        /\ backups' = [backups EXCEPT ![n] = "none"]
        /\ plan' = [plan EXCEPT !.list = @ \ {n}, !.back = @ \cup {n}] /\ UNCHANGED report
     \/ Fails /\ UNCHANGED <<files, backups>>
  /\ UNCHANGED <<updates, registered, hook, rest, cutShort>>

\* Mutant of Leftovers: what came back is enough.
LeftoversNone(back) == {}
\* leftovers: never the only module.
Leftovers(back) ==
  IF Cardinality(Present) < 2 THEN {} ELSE IF back # {} THEN Present \ back ELSE {"ko"}

ListLeftovers ==
  /\ plan.at = "putBack" /\ plan.list = {}
  /\ plan' = [plan EXCEPT !.at = "takeAway", !.list = Leftovers(plan.back)]
  /\ UNCHANGED <<disk, rest, report, cutShort>>

TakeAway(n) ==
  /\ plan.at = "takeAway" /\ n \in plan.list
  /\ \/ /\ files' = [files EXCEPT ![n] = "none"]
        /\ plan' = [plan EXCEPT !.list = @ \ {n}] /\ UNCHANGED <<report, cutShort>>
     \/ Fails /\ cutShort' = TRUE /\ UNCHANGED files
  /\ UNCHANGED <<backups, updates, registered, hook, rest>>

Depmod ==
  /\ \/ plan.at = "depmod"
     \/ plan.at = "takeAway" /\ plan.list = {}
  /\ \/ index' = Found /\ GoesOn("unload") /\ UNCHANGED report
     \/ Fails /\ UNCHANGED index
  /\ UNCHANGED <<disk, loaded, cutShort>>

\* modprobe -r, optional, and its failure remembered (reload_incomplete).
Unload ==
  /\ plan.at = "unload"
  /\ \/ loaded' = "none" /\ GoesOn("load")
     \/ plan' = [plan EXCEPT !.at = "load", !.reload = FALSE] /\ UNCHANGED loaded
  /\ UNCHANGED <<disk, index, report, cutShort>>

ModuleAt(path) == CASE path = "updates" -> updates [] path \in Names -> files[path] [] OTHER -> "none"

\* modprobe: what depmod found, if it is there; a module that runs goes on.  The report is of
\* the required steps and of the unload: no other optional step counts (execute_watched).
Load ==
  /\ plan.at = "load"
  /\ \/ /\ loaded # "none" \/ ModuleAt(index) \in {"stock", "ours"}
        /\ loaded' = IF loaded # "none" THEN loaded ELSE ModuleAt(index)
        /\ report' = IF ~plan.reload THEN "failed"
                     ELSE IF plan.action = "install" THEN "installed" ELSE "restored"
        /\ plan' = NoPlan
     \/ Fails /\ UNCHANGED loaded
  /\ UNCHANGED <<disk, index, cutShort>>

\* The daemon, or the machine, ends in the middle of a plan.
Cut ==
  /\ plan.at # "idle" /\ plan' = NoPlan /\ report' = "failed"
  /\ cutShort' = (cutShort \/ (plan.back # {} /\ plan.at \in {"putBack", "takeAway"}))
  /\ UNCHANGED <<disk, rest>>

InstallerNext ==
  \/ \E strategy \in Strategies : BeginPlan("install", strategy)
  \/ BeginPlan("restore", "hooks")
  \/ Retire \/ BuildModule \/ Switch \/ ListModules \/ BackedUp \/ Install
  \/ Clear \/ ListLeftovers \/ Depmod \/ Unload \/ Load \/ Cut
  \/ \E n \in Names : BackUp(n) \/ BringBack(n) \/ TakeAway(n)

InstallerSpec == InstallerInit /\ [][InstallerNext]_installerVars

-----------------------------------------------------------------------------

\* However installs and restores followed each other, with either strategy, failed or were cut
\* off: a restore that reports success has the distribution's own module running (backup_in,
\* restore_in, leftovers).  Two restores are left out: one after a restore that was cut off
\* between its two halves, and one whose optional dkms remove failed or was declined, after
\* which depmod prefers the module DKMS still has under updates/.
RestoreMeansStock ==
  report = "restored" /\ ~cutShort /\ updates = "none" => loaded = "stock"

\* The same without the exceptions: "Puts the stock module back, and takes the patched one away"
\* (restore_backups).  Either of the two is enough for it to fail.
RestoreAlwaysStock ==
  report = "restored" => loaded = "stock"
=============================================================================
