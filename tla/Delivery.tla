------------------------------ MODULE Delivery ------------------------------
(***************************************************************************)
(* How an archive reaches a host: kiwi-create-archive packs the assets and *)
(* writes the archive, kiwi-provider loads it when it starts, and the      *)
(* agent, itself installed through the provider, fetches the release, its  *)
(* configuration and then each asset (src/cmd/kiwiCreateArchive.ts,        *)
(* src/src/app/kiwiProvider, src/src/assetsDistribution, kiwiAgent.ts).    *)
(*                                                                         *)
(* Release and configuration come from the memory of the provider, assets  *)
(* from a directory or an S3 bucket the builder writes to meanwhile, and   *)
(* asset names are reused: they start with a counter of the building       *)
(* process.  The content of an asset is the release it was packed for.     *)
(*                                                                         *)
(* One builder, one provider and one reload at a time (KiwiAgent is about  *)
(* reloads that overlap).  Archives are deployed in the order of their     *)
(* timestamps: nobody rolls back.                                          *)
(***************************************************************************)
EXTENDS Naturals, FiniteSets

CONSTANTS
  Names,        \* the asset file names
  MaxReleases,  \* bound: archives built; a release is the number of its build
  AssetsOf,     \* AssetsOf[x]: the asset files of release x
  MaxVersions,  \* bound: versions of the program
  MaxFaults,    \* bound: calls of the agent that fail for no reason modelled here
  None,         \* no such file, no such release
  Partial       \* a file that is still being written

Releases == 1 .. MaxReleases
Versions == 1 .. MaxVersions
ArchiveDir == 0                        \* the builder's `realArchiveDir'
Locations == {ArchiveDir} \cup Releases

ASSUME BoundAssumption == MaxReleases \in Nat /\ MaxVersions \in Nat \ {0} /\ MaxFaults \in Nat
ASSUME AssetsAssumption == AssetsOf \in [Releases -> SUBSET Names]
ASSUME NoneAssumption == None \notin Releases /\ Partial \notin Releases /\ None # Partial

VARIABLES
  kind,      \* the distributions of the provider: `dir' or `s3'
  (* the builder *)
  build,     \* what the builder does
  builds,    \* the newest build begun
  left,      \* the assets it has still to pack, or to upload
  files,     \* files[l][n]: what is stored at location l under name n
  complete,  \* the builds that have ended well
  file,      \* the release in the archive file that the provider is to load
  bundle,    \* bundle[v]: the agent of version v, as it is distributed
  (* the provider *)
  prov,      \* where it is, the release it has loaded and its version
  (* the host *)
  inst,      \* how far the installer is, and the version it was sent to
  binary,    \* the agent binary
  config,    \* has the agent a configuration file?
  pc,        \* where the reload waits
  forced,    \* its argument `force'
  rel,       \* its `release'
  wanted,    \* its assets not downloaded yet
  url,       \* where the next one is
  got,       \* got[n]: the content of what it downloaded as n
  recorded,  \* the release in the agent's database
  ran,       \* the release it last ran, with the assets it ran it with
  faults

builderVars == <<build, builds, left, files, complete, file>>
installVars == <<bundle, inst, binary, config>>
reloadVars == <<pc, forced, rel, wanted, url, got, recorded, ran>>
vars == <<kind, builderVars, installVars, prov, reloadVars, faults>>

NoFiles == [n \in Names |-> None]

Init ==
  /\ kind \in {"dir", "s3"}
  /\ build = "idle" /\ builds = 0 /\ left = {} /\ complete = {} /\ file = None
  /\ files = [l \in Locations |-> NoFiles]
  /\ bundle = [v \in Versions |-> None]
  /\ prov = [at |-> "down", release |-> None, version |-> 1]
  /\ inst = [at |-> "idle", version |-> 1] /\ binary = None /\ config = FALSE
  /\ pc = "idle" /\ forced = FALSE /\ rel = None /\ wanted = {} /\ url = None
  /\ got = NoFiles /\ recorded = None
  /\ ran = [release |-> None, got |-> NoFiles]
  /\ faults = 0

-----------------------------------------------------------------------------
(* Mutant of Prefix: the uploads of all archives share the prefix.         *)
PrefixShared(x) == 1

(* path.join(s3Prefix, timestamp of the archive); the configuration of the *)
(* provider names the prefix of the archive it loads.                      *)
Prefix(x) == x

(* kiwi-create-archive starts by emptying its directory, in place: with    *)
(* `dir' the one the provider serves and loads its archive file from.      *)
StartBuild ==
  /\ build = "idle" /\ builds < MaxReleases
  /\ build' = "packing"
  /\ builds' = builds + 1
  /\ left' = AssetsOf[builds + 1]
  /\ files' = [files EXCEPT ![ArchiveDir] = NoFiles]
  /\ file' = IF kind = "dir" THEN None ELSE file
  /\ UNCHANGED <<kind, complete, installVars, prov, reloadVars, faults>>

(* archiveRecipeAssets, recipe after recipe: tar.c creates the file under  *)
(* its final name and fills it.                                            *)
PackAsset(n) ==
  /\ build = "packing" /\ n \in left
  /\ \A k \in Names \ {n} : files[ArchiveDir][k] # Partial
  /\ LET begun == files[ArchiveDir][n] = Partial
     IN  /\ files' = [files EXCEPT ![ArchiveDir][n] = IF begun THEN builds ELSE Partial]
         /\ left' = IF begun THEN left \ {n} ELSE left
  /\ UNCHANGED <<kind, build, builds, complete, file, installVars, prov, reloadVars, faults>>

(* Archive.create ends with the time stamp and the archive file.           *)
WriteArchive ==
  /\ build = "packing" /\ left = {}
  /\ IF kind = "dir"
     THEN /\ build' = "idle" /\ complete' = complete \cup {builds} /\ file' = builds
          /\ UNCHANGED left
     ELSE /\ build' = "uploading" /\ left' = AssetsOf[builds]
          /\ UNCHANGED <<complete, file>>
  /\ UNCHANGED <<kind, builds, files, installVars, prov, reloadVars, faults>>

(* uploadDirToS3: in any order, five at a time, each file at once.         *)
Upload(n) ==
  /\ build = "uploading" /\ n \in left
  /\ files' = [files EXCEPT ![Prefix(builds)][n] = files[ArchiveDir][n]]
  /\ left' = left \ {n}
  /\ UNCHANGED <<kind, build, builds, complete, file, installVars, prov, reloadVars, faults>>

EndUpload ==
  /\ build = "uploading" /\ left = {}
  /\ build' = "idle"
  /\ complete' = complete \cup {builds}
  /\ UNCHANGED <<kind, builds, left, files, file, installVars, prov, reloadVars, faults>>

(* Any of these steps may throw; what was written stays.                   *)
BuildFails ==
  /\ build # "idle"
  /\ build' = "idle"
  /\ left' = {}
  /\ UNCHANGED <<kind, builds, files, complete, file, installVars, prov, reloadVars, faults>>

(* With S3 somebody hands the archive file and its prefix to the provider, *)
(* after kiwi-create-archive has ended well.                               *)
Deploy(x) ==
  /\ kind = "s3" /\ x \in complete
  /\ file # None => file < x
  /\ file' = x
  /\ UNCHANGED <<kind, build, builds, left, files, complete, installVars, prov, reloadVars, faults>>

(* createNodeJSBundle copies, or compresses, the program under the name    *)
(* that its version gives it.                                              *)
BundleAgent(v) ==
  /\ bundle[v] \in {None, Partial}
  /\ bundle' = [bundle EXCEPT ![v] = IF @ = None THEN Partial ELSE v]
  /\ UNCHANGED <<kind, builderVars, inst, binary, config, prov, reloadVars, faults>>

-----------------------------------------------------------------------------
(* getBuildVersion: a bundled program has the version it was built with;   *)
(* programs are upgraded only.                                             *)
NewVersions == prov.version .. MaxVersions

(* mainKiwiProvider: initialize loads the inventory, then the archive, and *)
(* throws without one; only then does the server listen.                   *)
ProviderStarts ==
  /\ \/ /\ prov.at = "down"
        /\ \E v \in NewVersions :
              prov' = [prov EXCEPT !.at = "inventory", !.version = v]
     \/ /\ prov.at = "inventory"
        /\ prov' = IF file = None THEN [prov EXCEPT !.at = "down"]
                                  ELSE [prov EXCEPT !.at = "archive", !.release = file]
     \/ prov.at = "archive" /\ prov' = [prov EXCEPT !.at = "listening"]
  /\ UNCHANGED <<kind, builderVars, installVars, reloadVars, faults>>

(* The provider is stopped or dies.                                        *)
ProviderStops ==
  /\ prov.at # "down"
  /\ prov' = [prov EXCEPT !.at = "down"]
  /\ UNCHANGED <<kind, builderVars, installVars, reloadVars, faults>>

Answers == prov.at = "listening"

(* A file of a distribution: express.static serves the directory as it is  *)
(* at that moment, a signed URL needs no provider.                         *)
Reachable == kind = "s3" \/ Answers

-----------------------------------------------------------------------------
(* A call of the host fails.                                               *)
Fault == faults < MaxFaults /\ faults' = faults + 1

(* install.sh comes from the provider and names its download route, which  *)
(* redirects to the agent of the version of the provider at that moment,   *)
(* and that to the file.  An error, or a file that cannot be decompressed, *)
(* ends the script; an uncompressed one is installed as it is.             *)
Install ==
  /\ \/ /\ inst.at = "idle" /\ Answers
        /\ inst' = [inst EXCEPT !.at = "script"]
        /\ UNCHANGED binary
     \/ /\ inst.at = "script"
        /\ inst' = IF Answers THEN [at |-> "file", version |-> prov.version]
                              ELSE [inst EXCEPT !.at = "idle"]
        /\ UNCHANGED binary
     \/ /\ inst.at = "file"
        /\ LET content == bundle[inst.version]
           IN  IF ~Reachable \/ content = None
               THEN inst' = [inst EXCEPT !.at = "idle"] /\ UNCHANGED binary
               ELSE /\ binary' = content
                    /\ \E l \in (IF content = Partial THEN {"idle", "bootstrap"} ELSE {"bootstrap"}) :
                          inst' = [inst EXCEPT !.at = l]
  /\ UNCHANGED <<kind, builderVars, bundle, config, prov, reloadVars, faults>>

Resting == pc \in {"idle", "hung"}

(* agentBootstrapConfig: an existing configuration is an error without     *)
(* --force.                                                                *)
MayConfigure(force) == force \/ ~config

(* kiwi-agent bootstrap: the configuration is written, and the first       *)
(* reload is forced.                                                       *)
Bootstrap ==
  /\ inst.at = "bootstrap" /\ Resting
  /\ inst' = [inst EXCEPT !.at = "idle"]
  /\ \E force \in BOOLEAN :
        IF binary \in Versions /\ MayConfigure(force)
        THEN config' = TRUE /\ pc' = "asking" /\ forced' = TRUE
        ELSE UNCHANGED <<config, pc, forced>>
  /\ UNCHANGED <<kind, builderVars, bundle, binary, prov, rel, wanted, url, got, recorded, ran, faults>>

(* GET /reload.  A download that hangs does not keep the next one away.    *)
Poll ==
  /\ config /\ Resting
  /\ pc' = "asking" /\ forced' = FALSE
  /\ UNCHANGED <<kind, builderVars, installVars, prov, rel, wanted, url, got, recorded, ran, faults>>

GiveUp == pc' = "idle" /\ UNCHANGED <<rel, wanted, url, got, recorded, ran>>

(* Mutant of AskRelease: any recorded release counts as the current one.   *)
AskReleaseAnyRecorded ==
  /\ pc = "asking"
  /\ IF Answers /\ (forced \/ recorded = None)
     THEN /\ pc' = "config" /\ rel' = prov.release
          /\ UNCHANGED <<wanted, url, got, recorded, ran>>
     ELSE GiveUp

(* Both the release and the configuration are the provider's, in memory.   *)
AskRelease ==
  /\ pc = "asking"
  /\ IF Answers /\ (forced \/ recorded # prov.release)
     THEN /\ pc' = "config" /\ rel' = prov.release
          /\ UNCHANGED <<wanted, url, got, recorded, ran>>
     ELSE GiveUp

FetchConfig ==
  /\ pc = "config"
  /\ IF Answers /\ prov.release = rel
     THEN /\ pc' = "assets" /\ wanted' = AssetsOf[rel] /\ got' = NoFiles
          /\ UNCHANGED <<rel, url, recorded, ran>>
     ELSE GiveUp

(* #downloadAllAssetsArchives asks where an asset is: the answer depends   *)
(* on the archive the provider has now, not on the release asked for.      *)
AskUrl ==
  /\ pc = "assets"
  /\ IF wanted = {}
     THEN pc' = "running" /\ UNCHANGED <<rel, wanted, url, got, recorded, ran>>
     ELSE IF ~Answers
     THEN GiveUp
     ELSE /\ pc' = "download"
          /\ \E n \in wanted :
                url' = <<IF kind = "dir" THEN ArchiveDir ELSE Prefix(prov.release), n>>
          /\ UNCHANGED <<rel, wanted, got, recorded, ran>>

(* downloadFile, from the provider or from S3.                             *)
Download ==
  /\ pc = "download"
  /\ LET content == files[url[1]][url[2]]
     IN  IF ~Reachable \/ content = None
         THEN GiveUp
         ELSE /\ pc' = "assets"
              /\ got' = [got EXCEPT ![url[2]] = content]
              /\ wanted' = wanted \ {url[2]}
              /\ UNCHANGED <<rel, url, recorded, ran>>

(* The recipes unpack their assets and run.  What was cut short is refused *)
(* by tar, unless it is empty.                                             *)
Run ==
  /\ pc = "running"
  /\ \/ /\ pc' = "saving"
        /\ ran' = [release |-> rel, got |-> got]
        /\ UNCHANGED <<rel, wanted, url, got, recorded>>
     \/ (\E n \in Names : got[n] = Partial) /\ GiveUp

Record ==
  /\ pc = "saving"
  /\ pc' = "idle" /\ recorded' = rel
  /\ UNCHANGED <<rel, wanted, url, got, ran>>

Reload ==
  /\ AskRelease \/ FetchConfig \/ AskUrl \/ Download \/ Run \/ Record
  /\ UNCHANGED <<kind, builderVars, installVars, prov, forced, faults>>

(* A call fails, a recipe fails or the agent dies; or the connection       *)
(* breaks while a file is read, and the download never ends.               *)
ReloadFails ==
  /\ ~Resting /\ Fault
  /\ pc' \in IF pc = "download" THEN {"idle", "hung"} ELSE {"idle"}
  /\ UNCHANGED <<kind, builderVars, installVars, prov, forced, rel, wanted, url, got, recorded, ran>>

-----------------------------------------------------------------------------
Builder ==
  \/ StartBuild \/ WriteArchive \/ EndUpload \/ BuildFails
  \/ \E n \in Names : PackAsset(n) \/ Upload(n)
  \/ \E x \in Releases : Deploy(x)
  \/ \E v \in Versions : BundleAgent(v)

Next ==
  \/ Builder
  \/ ProviderStarts \/ ProviderStops
  \/ Install \/ Bootstrap \/ Poll \/ Reload \/ ReloadFails

(* The provider is a supervised service, the installer is run until the    *)
(* agent is there, and something keeps calling GET /reload.  The builder   *)
(* owes nothing.                                                           *)
Spec ==
  /\ Init /\ [][Next]_vars
  /\ WF_vars(ProviderStarts) /\ WF_vars(Install) /\ WF_vars(Bootstrap)
  /\ WF_vars(Poll) /\ WF_vars(Reload)

-----------------------------------------------------------------------------
(* A host runs a release with the assets packed for it, whatever failed,   *)
(* was built or restarted meanwhile, as long as the provider still has     *)
(* that release and, when it serves the directory of the builder, no later *)
(* build was begun: asset names alone do not tell (archive.ts:556), the    *)
(* prefix of the uploads and the order of the builder's steps must.        *)
OwnAssets ==
  pc = "running" /\ prov.release = rel /\ (kind = "dir" => builds = rel) =>
    \A n \in AssetsOf[rel] : got[n] = rel

Settled ==
  /\ build = "idle" /\ Answers
  /\ file # None /\ prov.release = file
  /\ bundle[prov.version] \in Versions

Converged ==
  /\ recorded = prov.release /\ ran.release = recorded
  /\ \A n \in AssetsOf[recorded] : ran.got[n] = recorded

(* Once the provider stays up with the last archive, the host gets to run  *)
(* that release with its own assets and to record it, whatever mixture it  *)
(* ran before, and whether or not an earlier reload hangs in a download    *)
(* (kiwiAgent.ts:106-124: the recorded release is compared each time).     *)
HostConverges == <>[]Settled => <>[](recorded # None /\ Converged)
=============================================================================
