---------------------------- MODULE NativeBundle ----------------------------
(***************************************************************************)
(* The native bundle: portable/provision_native.py makes it in a work      *)
(* directory from pinned downloads, which it gets as ModelCache has it;    *)
(* packaging.py assembles and verifies it; native_qualification.py, run    *)
(* with the bundle's own interpreter, tries it; and on another machine     *)
(* the runtime that was retained is unpacked, gets its models back from a  *)
(* cache, and is verified and tried again.                                 *)
(*                                                                         *)
(* A package is what is in it of each asset, what its manifest says of     *)
(* that, and the files that the manifest does not have.  Its user data,    *)
(* which no check reads, and the contents of runtimes are left out.        *)
(***************************************************************************)
EXTENDS ModelCache, FiniteSets, FiniteSetsExt

CONSTANTS
    Runtimes,       \* the assets that main makes from downloads
    Speech,         \* the one that provision_speech.py makes
    Needs           \* the downloads of each

Assets == Runtimes \union {Speech} \union Models
Places == {"temp", "original", "relocated", "payload", "field"}
Bundles == {"relocated", "field"}
Tiers == {"scout", "general", "deep"}

ASSUME BundleAssumption ==
    /\ Runtimes \intersect Models = {}
    /\ Speech \notin Runtimes \union Models
    /\ Absent \notin Assets \union [bytes : Nat, good : BOOLEAN]
    /\ Needs \in [Runtimes -> SUBSET Downloads]
    /\ IsFiniteSet(Assets)
    /\ \A b \in Budgets : {b.builds, b.smokes, b.wear} \subseteq Nat

VARIABLES
    build,          \* the run of provision_native.py: what it does, on what, what is left
    made,           \* the directories of the work directory that a build has made
    tar,            \* its archives/: how much is in each, and whether it is what it should be
    taken,          \* the models that a build took out of the directory
    package,        \* the packages, on both machines
    child,          \* native_qualification.py, where it tries a bundle
    qualification,  \* what it has written last of each bundle
    field,          \* what verify_or_smoke does: nothing, or wait for its child
    receipt         \* what it has written

bundleVars == <<build, made, tar, taken, package, child, qualification, field, receipt>>
bundleState == <<cacheVars, bundleVars>>

-----------------------------------------------------------------------------
Content == [bytes : Nat, good : BOOLEAN] \union {Absent}
Parts == [Assets -> Content]
Nothing == [a \in Assets |-> Absent]
Made == [bytes |-> 1, good |-> TRUE]
Broken == [bytes |-> 1, good |-> FALSE]

NoPackage == [here |-> FALSE, part |-> Nothing, manifest |-> Nothing, extra |-> {}]

\* native_qualification.py: its checks in their order; each of the first three is fatal.
Checks == <<"egress", "python", "integrity", "scout", "general", "deep", "rest",
            "integrity_after">>
Fatal == 3
CheckNames == {Checks[i] : i \in 1..Len(Checks)}

NoBuild == [at |-> "none", asset |-> Absent, left |-> {}]
NoChild == [at |-> "none", step |-> 0, passed |-> {}]
NoResult == [status |-> "none", passed |-> {}]
NoReceipt == [status |-> "none", claimed |-> FALSE]

BundleTypeOK ==
    /\ CacheTypeOK
    /\ build \in [at : {"none", "runtime", "fetching", "unpack", "speech", "assemble",
                        "stream", "pack", "drop", "extract", "consume", "manifest",
                        "relocate", "qualify", "child", "retain"},
                  asset : Assets \union {Absent}, left : SUBSET Assets]
    /\ made \subseteq Runtimes \union {Speech}
    /\ tar \in Parts
    /\ taken \subseteq Models
    /\ package \in [Places -> [here : BOOLEAN, part : Parts, manifest : Parts,
                               extra : SUBSET {"bytecode", "other"}]]
    /\ child \in [Bundles ->
           [at : {"none", "running", "passed", "failed"},
            step : 0..Len(Checks), passed : SUBSET CheckNames]]
    /\ qualification \in [Bundles ->
           [status : {"none", "running", "torn", "passed", "failed"},
            passed : SUBSET CheckNames]]
    /\ field \in {"idle", "child"}
    /\ receipt \in [status : {"none", "blocked", "failed", "verified", "passed"},
                    claimed : BOOLEAN]

BundleInit ==
    /\ CacheInit
    /\ build = NoBuild
    /\ made = {}
    /\ tar = Nothing
    /\ taken = {}
    /\ package = [p \in Places |-> NoPackage]
    /\ child = [b \in Bundles |-> NoChild]
    /\ qualification = [b \in Bundles |-> NoResult]
    /\ field = "idle"
    /\ receipt = NoReceipt

-----------------------------------------------------------------------------
(* packaging.py *)

\* verify: the files, without data/, are those that the manifest declares.
Verified(k) ==
    /\ k.here
    /\ k.manifest # Nothing
    /\ k.part = k.manifest
    /\ k.extra = {}

-----------------------------------------------------------------------------
(* provision_native.py: main *)

By(p, stage) == proc[p].task = "build" /\ At(p, "busy") /\ build.at = stage

Proceed(stage) == build' = [build EXCEPT !.at = stage]

\* Before assemble the temporary package is one that a killed build has left.
Assembling == build.at \notin {"runtime", "unpack", "speech", "assemble"}
                  /\ ~(build.at = "fetching" /\ build.asset \in Runtimes)

\* An exception leaves the with-block of assemble, and ends the program.
Die(p) ==
    /\ Leave(p)
    /\ build' = NoBuild
    /\ package' = IF Assembling THEN [package EXCEPT !["temp"] = NoPackage] ELSE package

\* The work directory need not be fresh: the file that says it is not is not there.
Build(p) ==
    /\ At(p, "idle")
    /\ build.at = "none"
    /\ Spend("builds")
    /\ build' = [at |-> "runtime", asset |-> Absent, left |-> Assets]
    /\ proc' = [proc EXCEPT ![p] = [Idle EXCEPT !.at = "busy", !.task = "build"]]
    /\ UNCHANGED <<file, sidecar, report, audit, made, tar, taken, package>>

Want(p, asset, entries) ==
    /\ build' = [build EXCEPT !.at = "fetching", !.asset = asset]
    /\ proc' = [proc EXCEPT ![p].at = "next", ![p].wanted = entries,
                            ![p].todo = entries, ![p].got = {}]
    /\ UNCHANGED <<file, sidecar, report, audit, spare, made, tar, taken, package>>

FetchRuntime(p, r) ==
    /\ By(p, "runtime")
    /\ r \in build.left \intersect Runtimes
    /\ Want(p, r, Needs[r])

\* For a model main calls main of provision_models.py, which has a receipt of its own.
Fetched(p) ==
    /\ proc[p].task = "build"
    /\ At(p, "next")
    /\ proc[p].todo = {}
    /\ proc' = [proc EXCEPT ![p].at = "busy"]
    /\ IF build.asset \in Models
       THEN /\ Proceed("pack")
            /\ report' = [report EXCEPT !["provision"] =
                             [wanted |-> {build.asset}, complete |-> TRUE]]
       ELSE Proceed("unpack") /\ UNCHANGED report
    /\ UNCHANGED <<file, sidecar, audit, spare, made, tar, taken, package>>

\* Mutant: main of provision_models.py returns 1, which nobody looks at.
FetchFailedIgnored(p) ==
    /\ proc[p].task = "build"
    /\ At(p, "failed")
    /\ IF build.asset \in Models
       THEN /\ proc' = [proc EXCEPT ![p].at = "busy"]
            /\ Proceed("pack")
            /\ UNCHANGED package
       ELSE Die(p)
    /\ UNCHANGED <<file, sidecar, report, audit, spare, made, tar, taken>>

FetchFailed(p) ==
    /\ proc[p].task = "build"
    /\ At(p, "failed")
    /\ Die(p)
    /\ UNCHANGED <<file, sidecar, report, audit, spare, made, tar, taken>>

\* What a runtime is made from goes into a new directory, what comes of it into an archive.
Unpack(p) ==
    /\ By(p, "unpack")
    /\ LET r == build.asset IN
       IF r \in made THEN Die(p) /\ UNCHANGED <<made, tar>>
       ELSE /\ made' = made \union {r}
            /\ tar' = [tar EXCEPT ![r] = Made]
            /\ build' = [build EXCEPT
                   !.left = @ \ {r},
                   !.at = IF build.left \intersect Runtimes = {r} THEN "speech" ELSE "runtime"]
            /\ UNCHANGED <<proc, package>>
    /\ UNCHANGED <<file, sidecar, report, audit, spare, taken>>

\* provision_speech.py: what it downloads it checks, and does not keep to resume from.
ProvisionSpeech(p) ==
    /\ By(p, "speech")
    /\ IF Speech \in made THEN Die(p) /\ UNCHANGED <<made, tar>>
       ELSE /\ made' = made \union {Speech}
            /\ tar' = [tar EXCEPT ![Speech] = Made]
            /\ build' = [build EXCEPT !.left = Assets, !.at = "assemble"]
            /\ UNCHANGED <<proc, package>>
    /\ UNCHANGED <<file, sidecar, report, audit, spare, taken>>

Assemble(p) ==
    /\ By(p, "assemble")
    /\ IF package["original"].here THEN Die(p)
       ELSE /\ package' = [package EXCEPT !["temp"] = [NoPackage EXCEPT !.here = TRUE]]
            /\ Proceed("stream")
            /\ UNCHANGED proc
    /\ UNCHANGED <<file, sidecar, report, audit, spare, made, tar, taken>>

\* streaming_assets: first what is made, then the models, the largest first.
StreamRuntime(p, a) ==
    /\ By(p, "stream")
    /\ a \in build.left \ Models
    /\ build' = [build EXCEPT !.at = "extract", !.asset = a]
    /\ UNCHANGED <<cacheVars, made, tar, taken, package>>

\* Mutant: the order of sorted() is not reversed.
SupplySmallest(p, m) ==
    /\ By(p, "stream")
    /\ build.left \subseteq Models
    /\ m \in build.left
    /\ \A n \in build.left : Blocks[n] >= Blocks[m]
    /\ Want(p, m, {m})

Supply(p, m) ==
    /\ By(p, "stream")
    /\ build.left \subseteq Models
    /\ m \in build.left
    /\ \A n \in build.left : Blocks[n] <= Blocks[m]
    /\ Want(p, m, {m})

\* asset_record: all that lies in the directory of the model, and its own digest of that.
Raw(m) == Length(file[m]["dest"]) + Length(file[m]["part"]) + Length(file[m]["invalid"])
Packed(m) == [bytes |-> Raw(m), good |-> Published(m)]

Pack(p) ==
    /\ By(p, "pack")
    /\ tar' = [tar EXCEPT ![build.asset] = Packed(build.asset)]
    /\ Proceed("drop")
    /\ UNCHANGED <<cacheVars, made, taken, package>>

Drop(p) ==
    /\ By(p, "drop")
    /\ LET m == build.asset IN
       /\ file' = [file EXCEPT ![m] = [n \in Names |-> Absent]]
       /\ proc' = [q \in Fetchers |->
              IF q # p /\ Entry(q) = m /\ proc[q].open # "none"
              THEN [proc[q] EXCEPT !.open = "lost"] ELSE proc[q]]
       /\ sidecar' = sidecar \ {m}
       /\ taken' = taken \union {m}
    /\ Proceed("extract")
    /\ UNCHANGED <<report, audit, spare, made, tar, package>>

Extract(p) ==
    /\ By(p, "extract")
    /\ package' = [package EXCEPT !["temp"].part[build.asset] = tar[build.asset]]
    /\ Proceed("consume")
    /\ UNCHANGED <<cacheVars, made, tar, taken>>

\* The generator goes on: the archive is removed before the next asset is made.
Consume(p) ==
    /\ By(p, "consume")
    /\ LET left == build.left \ {build.asset} IN
       build' = [at |-> IF left = {} THEN "manifest" ELSE "stream", asset |-> Absent,
                 left |-> left]
    /\ tar' = [tar EXCEPT ![build.asset] = Absent]
    /\ UNCHANGED <<cacheVars, made, taken, package>>

\* The manifest is of what is there; the package gets its place when it is verified.
Manifest(p) ==
    /\ By(p, "manifest")
    /\ LET k == [package["temp"] EXCEPT !.manifest = package["temp"].part] IN
       IF Verified(k)
       THEN /\ package' = [package EXCEPT !["original"] = k, !["temp"] = NoPackage]
            /\ Proceed("relocate")
            /\ UNCHANGED proc
       ELSE Die(p)
    /\ UNCHANGED <<file, sidecar, report, audit, spare, made, tar, taken>>

Relocate(p) ==
    /\ By(p, "relocate")
    /\ package' = [package EXCEPT !["relocated"] = package["original"],
                                  !["original"] = NoPackage]
    /\ Proceed("qualify")
    /\ UNCHANGED <<cacheVars, made, tar, taken>>

\* Something goes wrong that the program does not catch; what it was at is half done.
BuildError(p) ==
    /\ \E stage \in {"unpack", "speech", "pack", "extract", "manifest", "retain"} : By(p, stage)
    /\ Spend("faults")
    /\ Die(p)
    /\ made' \in IF By(p, "unpack") THEN {made, made \union {build.asset}}
                 ELSE IF By(p, "speech") THEN {made, made \union {Speech}} ELSE {made}
    /\ UNCHANGED <<file, sidecar, report, audit, tar, taken>>

BuildStep ==
    \E p \in Fetchers :
        \/ Build(p) \/ Fetched(p) \/ FetchFailed(p) \/ Unpack(p) \/ ProvisionSpeech(p)
        \/ \E r \in Runtimes : FetchRuntime(p, r)
        \/ Assemble(p)
        \/ \E a \in Runtimes \union {Speech} : StreamRuntime(p, a)
        \/ \E m \in Models : Supply(p, m)
        \/ Pack(p) \/ Drop(p) \/ Extract(p) \/ Consume(p) \/ Manifest(p) \/ Relocate(p)
        \/ BuildError(p)

-----------------------------------------------------------------------------
(* native_qualification.py, and the build that waits for it *)

Started == [NoChild EXCEPT !.at = "running"]

\* One check, after which the report is written.
Examine(b) ==
    /\ child[b].at = "running"
    /\ LET i == child[b].step + 1 IN
       \E ok \in IF Checks[i] \in {"integrity", "integrity_after"}
                 THEN {Verified(package[b])} ELSE BOOLEAN :
           LET passed == child[b].passed \union IF ok THEN {Checks[i]} ELSE {}
               status == IF ~ok /\ i <= Fatal THEN "failed"
                         ELSE IF i < Len(Checks) THEN "running"
                         ELSE IF passed = CheckNames THEN "passed" ELSE "failed"
           IN  /\ child' = [child EXCEPT ![b] = [at |-> status, step |-> i, passed |-> passed]]
               /\ qualification' = [qualification EXCEPT ![b] =
                                       [status |-> status, passed |-> passed]]
               /\ IF ok \/ Checks[i] \in {"integrity", "integrity_after"}
                  THEN UNCHANGED spare ELSE Spend("faults")
    /\ UNCHANGED <<file, sidecar, report, proc, audit, build, made, tar, taken, package,
                   field, receipt>>

\* It dies, or is killed when its time is over, before or while it writes.
ChildDies(b) ==
    /\ child[b].at = "running"
    /\ Spend("faults")
    /\ child' = [child EXCEPT ![b].at = "failed"]
    /\ \/ UNCHANGED qualification
       \/ qualification' = [qualification EXCEPT ![b] = [NoResult EXCEPT !.status = "torn"]]
    /\ UNCHANGED <<file, sidecar, report, proc, audit, build, made, tar, taken, package,
                   field, receipt>>

Qualify(p) ==
    /\ By(p, "qualify")
    /\ child' = [child EXCEPT !["relocated"] = Started]
    /\ Proceed("child")
    /\ UNCHANGED <<cacheVars, made, tar, taken, package, qualification, field, receipt>>

\* qualify raises unless its child has returned 0.
Qualified(p) ==
    /\ By(p, "child")
    /\ child["relocated"].at \in {"passed", "failed"}
    /\ IF child["relocated"].at = "passed"
       THEN Proceed("retain") /\ UNCHANGED <<proc, package>> ELSE Die(p)
    /\ child' = [child EXCEPT !["relocated"] = NoChild]
    /\ UNCHANGED <<file, sidecar, report, audit, spare, made, tar, taken, qualification,
                   field, receipt>>

\* retain_runtime_payload leaves out the file of each model.
Retain(p) ==
    /\ By(p, "retain")
    /\ package' = [package EXCEPT !["payload"] =
           [package["relocated"] EXCEPT !.part =
               [a \in Assets |-> IF a \in Models THEN Absent ELSE @[a]]]]
    /\ Leave(p)
    /\ build' = NoBuild
    /\ UNCHANGED <<file, sidecar, report, audit, spare, made, tar, taken, child,
                   qualification, field, receipt>>

Kill(p) ==
    /\ Crash(p)
    /\ IF proc[p].task = "build"
       THEN /\ build' = NoBuild
            /\ child' = [child EXCEPT !["relocated"] = NoChild]
       ELSE UNCHANGED <<build, child>>
    /\ UNCHANGED <<made, tar, taken, package, qualification, field, receipt>>

PowerCut ==
    /\ PowerLoss
    /\ build' = NoBuild
    /\ child' = [child EXCEPT !["relocated"] = NoChild]
    /\ UNCHANGED <<made, tar, taken, package, qualification, field, receipt>>

-----------------------------------------------------------------------------
(* The other machine *)

\* The payload is unpacked into a new directory, or not quite.
Deliver ==
    /\ package["payload"].here
    /\ ~package["field"].here
    /\ \/ package' = [package EXCEPT !["field"] = package["payload"]] /\ UNCHANGED spare
       \/ /\ Spend("faults")
          /\ \E a \in Runtimes \union {Speech} :
                 package' = [package EXCEPT !["field"] =
                                [package["payload"] EXCEPT !.part[a] = Broken]]
    /\ UNCHANGED <<file, sidecar, report, proc, audit, build, made, tar, taken, child,
                   qualification, field, receipt>>

\* restore_models.py copies a model that has the locked bytes, where there is none yet.
Restore(m) ==
    /\ package["field"].here
    /\ package["field"].part[m] = Absent
    /\ Published(m)
    /\ \/ /\ package' = [package EXCEPT !["field"].part[m] =
                            [package["field"].manifest[m] EXCEPT !.good = TRUE]]
          /\ UNCHANGED spare
       \/ Spend("faults") /\ package' = [package EXCEPT !["field"].part[m] = Broken]
    /\ UNCHANGED <<file, sidecar, report, proc, audit, build, made, tar, taken, child,
                   qualification, field, receipt>>

\* The package is used: bytecode is written, files are added or spoilt.
Wear ==
    /\ package["field"].here
    /\ Spend("wear")
    /\ \/ \E kind \in {"bytecode", "other"} :
              package' = [package EXCEPT !["field"].extra = @ \union {kind}]
       \/ \E a \in Assets :
              /\ package["field"].part[a] # Absent
              /\ package' = [package EXCEPT !["field"].part[a] = Broken]
    /\ UNCHANGED <<file, sidecar, report, proc, audit, build, made, tar, taken, child,
                   qualification, field, receipt>>

\* purge_undeclared_bytecode removes bytecode until it meets an undeclared file.
Purge ==
    /\ package["field"].here
    /\ package["field"].extra # {}
    /\ \E extra \in {package["field"].extra, package["field"].extra \ {"bytecode"}} :
           /\ "other" \notin package["field"].extra => extra = {}
           /\ package' = [package EXCEPT !["field"].extra = extra]
    /\ UNCHANGED <<cacheVars, build, made, tar, taken, child, qualification, field, receipt>>

\* verify_or_smoke, up to its child.
Smoke ==
    /\ field = "idle"
    /\ Spend("smokes")
    /\ \/ /\ Verified(package["field"])
          /\ field' = "child"
          /\ child' = [child EXCEPT !["field"] = Started]
          /\ UNCHANGED receipt
       \/ /\ receipt' = [NoReceipt EXCEPT !.status =
                            IF ~package["field"].here THEN "blocked"
                            ELSE IF ~Verified(package["field"]) THEN "failed" ELSE "verified"]
          /\ UNCHANGED <<field, child>>
    /\ UNCHANGED <<file, sidecar, report, proc, audit, build, made, tar, taken, package,
                   qualification>>

\* Mutant: what is written is enough.
SmokedByFile ==
    /\ field = "child"
    /\ child["field"].at \in {"passed", "failed"}
    /\ LET said == qualification["field"]
       IN  receipt' = [status |-> IF said.status = "passed" THEN "passed" ELSE "failed",
                       claimed |-> said.status = "passed" /\ Tiers \subseteq said.passed]
    /\ field' = "idle"
    /\ child' = [child EXCEPT !["field"] = NoChild]
    /\ UNCHANGED <<cacheVars, build, made, tar, taken, package, qualification>>

\* What the child has written counts, together with what it has returned.
Smoked ==
    /\ field = "child"
    /\ child["field"].at \in {"passed", "failed"}
    /\ LET said == qualification["field"]
           status == IF child["field"].at = "passed" /\ said.status = "passed"
                     THEN "passed" ELSE "failed"
       IN  receipt' = [status |-> status,
                       claimed |-> /\ said.status = "passed" /\ Tiers \subseteq said.passed
                                   /\ status = "passed"]
    /\ field' = "idle"
    /\ child' = [child EXCEPT !["field"] = NoChild]
    /\ UNCHANGED <<cacheVars, build, made, tar, taken, package, qualification>>

TimedOut ==
    /\ field = "child"
    /\ child["field"].at = "running"
    /\ Spend("faults")
    /\ receipt' = [NoReceipt EXCEPT !.status = "failed"]
    /\ field' = "idle"
    /\ child' = [child EXCEPT !["field"] = NoChild]
    /\ UNCHANGED <<file, sidecar, report, proc, audit, build, made, tar, taken, package,
                   qualification>>

FieldCrash ==
    /\ field = "child"
    /\ Spend("crashes")
    /\ field' = "idle"
    /\ child' = [child EXCEPT !["field"] = NoChild]
    /\ UNCHANGED <<file, sidecar, report, proc, audit, build, made, tar, taken, package,
                   qualification, receipt>>

-----------------------------------------------------------------------------
BundleNext ==
    \/ CacheStep /\ UNCHANGED bundleVars
    \/ BuildStep /\ UNCHANGED <<child, qualification, field, receipt>>
    \/ \E b \in Bundles : Examine(b) \/ ChildDies(b)
    \/ \E p \in Fetchers : Qualify(p) \/ Qualified(p) \/ Retain(p) \/ Kill(p)
    \/ \E m \in Models : Restore(m)
    \/ PowerCut \/ Deliver \/ Wear \/ Purge \/ Smoke \/ Smoked \/ TimedOut \/ FieldCrash

BundleSpec == BundleInit /\ [][BundleNext]_bundleState

-----------------------------------------------------------------------------
\* A receipt that is complete, and a file's own receipt, stay true: what they name has
\* the locked bytes (audit_cache, main of provision_models.py, acquire_locked_assets),
\* or a build has taken the model away since.
ReceiptsAreTrue ==
    /\ \A r \in Reports : report[r].complete =>
           \A e \in report[r].wanted : Published(e) \/ e \in taken
    /\ \A e \in sidecar : Published(e)

\* While the directories of models hold nothing but models, the build never has more
\* of them on the disk than "near two largest models" besides those in the package
\* (provision_native.py:722): a model goes from its directory to an archive to the
\* package before the next comes, and the last ones are small.  That is of the models
\* that it has had its turn with: one that lies in its directory before, from an
\* earlier run, takes its room there besides.
Bytes(c) == IF c = Absent THEN 0 ELSE c.bytes

Sizes(m) ==
    <<IF build.asset = m THEN Raw(m) ELSE 0, Bytes(tar[m]), Bytes(package["temp"].part[m]),
      Bytes(package["original"].part[m]), Bytes(package["relocated"].part[m])>>

Held(m) == MapThenSumSet(LAMBDA i : Sizes(m)[i], 1..5)

DiskIsBounded ==
    LET largest == CHOOSE m \in Models : \A n \in Models : Blocks[n] <= Blocks[m]
        total == MapThenSumSet(LAMBDA m : Blocks[m], Models)
        second == Max({0} \union {Blocks[n] : n \in Models \ {largest}})
    IN  (\A m \in Models, i \in 1..5 : Sizes(m)[i] <= Blocks[m]) =>
            MapThenSumSet(Held, Models) <= Max({2 * Blocks[largest], total + second})

\* A package is at its place whole or not at all ("Create a new package atomically",
\* packaging.py:105), and one that verifies has every model with the bytes of the lock,
\* although its manifest is made of what was there.
PackagesAreWhole ==
    /\ \A p \in {"original", "relocated"} : package[p].here => Verified(package[p])
    /\ \A p \in Places : Verified(package[p]) =>
           \A a \in Assets : package[p].part[a] # Absent /\ package[p].part[a].good

\* What is certified has the locked bytes: by a receipt, by the record beside a file,
\* or by the manifest of a package that verifies.
CertifiedIsLocked == ReceiptsAreTrue /\ PackagesAreWhole

\* Inference is claimed only when the child of this very run has passed every check,
\* on a bundle that it has verified: never from what an earlier run has left.
ClaimsAreEarned ==
    [][receipt' # receipt /\ receipt'.claimed =>
           child["field"].at = "passed" /\ child["field"].passed = CheckNames]_bundleState

=============================================================================
