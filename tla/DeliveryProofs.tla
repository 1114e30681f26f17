---------------------------- MODULE DeliveryProofs ----------------------------
(***************************************************************************)
(* Theorems about Delivery, for any asset names, any assets of each        *)
(* release and any number of releases, versions and faults.                *)
(*                                                                         *)
(* That an asset is the one of its release rests on a chain: what the      *)
(* builder has finished stays where it is (DirectoryInv, BucketInv), what  *)
(* the provider has loaded was finished and never gets older (ReleaseInv), *)
(* the release a reload asked for is not newer than that (HostInv), so a   *)
(* location the provider names in between is that of the release itself    *)
(* (DownloadInv), and so is what was downloaded from there (GotInv).       *)
(***************************************************************************)
EXTENDS Delivery, TLAPS

Content == Releases \cup {None, Partial}

TypeOK ==
  /\ kind \in {"dir", "s3"}
  /\ build \in {"idle", "packing", "uploading"} /\ builds \in 0 .. MaxReleases
  /\ left \subseteq Names
  /\ files \in [Locations -> [Names -> Content]]
  /\ complete \subseteq Releases /\ file \in Releases \cup {None}
  /\ bundle \in [Versions -> Versions \cup {None, Partial}]
  /\ prov \in [at : {"down", "inventory", "archive", "listening"},
               release : Releases \cup {None}, version : Versions]
  /\ inst \in [at : {"idle", "script", "file", "bootstrap"}, version : Versions]
  /\ binary \in Versions \cup {None, Partial} /\ config \in BOOLEAN
  /\ pc \in {"idle", "hung", "asking", "config", "assets", "download", "running", "saving"}
  /\ forced \in BOOLEAN
  /\ rel \in Releases \cup {None} /\ wanted \subseteq Names
  /\ url \in {None} \cup (Locations \X Names)
  /\ got \in [Names -> Content]
  /\ recorded \in Releases \cup {None}
  /\ ran \in [release : Releases \cup {None}, got : [Names -> Content]]
  /\ faults \in 0 .. MaxFaults

(* The builder finishes a build before it begins the next one.             *)
BuilderInv ==
  /\ complete \subseteq 1 .. builds
  /\ build # "idle" => builds \in Releases \ complete /\ left \subseteq AssetsOf[builds]
  /\ build = "uploading" => kind = "s3"

(* The directory of the builder: what it has packed stays until the next   *)
(* build.                                                                  *)
DirectoryInv ==
  /\ build = "packing" => \A n \in AssetsOf[builds] \ left : files[ArchiveDir][n] = builds
  /\ build = "uploading" \/ (kind = "dir" /\ builds \in complete) =>
       \A n \in AssetsOf[builds] : files[ArchiveDir][n] = builds

(* The bucket: what it has uploaded stays.                                 *)
BucketInv ==
  /\ build = "uploading" => \A n \in AssetsOf[builds] \ left : files[builds][n] = builds
  /\ kind = "s3" => \A x \in complete : \A n \in AssetsOf[x] : files[x][n] = x

(* The provider loads what was finished, and nothing older than it has.    *)
ReleaseInv ==
  /\ file \in complete \cup {None} /\ prov.release \in complete \cup {None}
  /\ prov.at \in {"archive", "listening"} => prov.release # None
  /\ prov.release # None /\ file # None => prov.release <= file
  /\ prov.release # None /\ kind = "s3" => file # None

(* Between the answer of the provider and the end of the reload.           *)
Reloading == pc \in {"config", "assets", "download", "running", "saving"}

HostInv ==
  Reloading => rel \in complete /\ prov.release \in complete /\ rel <= prov.release

DownloadInv ==
  /\ pc \in {"assets", "download"} => wanted \subseteq AssetsOf[rel]
  /\ pc = "download" =>
       /\ url \in Locations \X Names /\ url[2] \in wanted
       /\ kind = "dir" => url[1] = ArchiveDir
       /\ kind = "s3" => url[1] \in Releases /\ rel <= url[1] /\ url[1] <= prov.release
  /\ pc = "running" => wanted = {}

(* Is the release of the reload still to be had?                           *)
Current == prov.release = rel /\ (kind = "dir" => builds = rel)

GotInv ==
  pc \in {"assets", "download", "running"} /\ Current =>
    \A n \in AssetsOf[rel] \ wanted : got[n] = rel

Inv ==
  /\ TypeOK /\ BuilderInv /\ DirectoryInv /\ BucketInv
  /\ ReleaseInv /\ HostInv /\ DownloadInv /\ GotInv

-----------------------------------------------------------------------------
(* What the assumptions say of the values.                                 *)
LEMMA Constants ==
  /\ MaxReleases \in Nat /\ MaxVersions \in Nat /\ MaxFaults \in Nat
  /\ Releases \subseteq Nat /\ ArchiveDir \notin Releases /\ ArchiveDir \in Locations
  /\ Releases \subseteq Locations
  /\ None \notin Releases /\ Partial \notin Releases /\ None # Partial
  /\ 1 \in Versions /\ Versions \subseteq Nat
  /\ \A x \in Releases : AssetsOf[x] \subseteq Names
BY BoundAssumption, AssetsAssumption, NoneAssumption DEF Releases, Versions, Locations, ArchiveDir

LEMMA InitInv == Init => Inv
<1> SUFFICES ASSUME Init PROVE Inv
  OBVIOUS
<1>1. TypeOK
  <2>1. NoFiles \in [Names -> Content]
    BY DEF NoFiles, Content
  <2>2. files \in [Locations -> [Names -> Content]] /\ got \in [Names -> Content]
    BY <2>1 DEF Init
  <2>3. ran \in [release : Releases \cup {None}, got : [Names -> Content]]
    BY <2>1 DEF Init
  <2>4. /\ bundle \in [Versions -> Versions \cup {None, Partial}]
        /\ prov \in [at : {"down", "inventory", "archive", "listening"},
                     release : Releases \cup {None}, version : Versions]
        /\ inst \in [at : {"idle", "script", "file", "bootstrap"}, version : Versions]
    BY Constants DEF Init
  <2>5. builds \in 0 .. MaxReleases /\ faults \in 0 .. MaxFaults
    BY BoundAssumption DEF Init
  <2> QED
    BY <2>2, <2>3, <2>4, <2>5 DEF Init, TypeOK
<1>2. BuilderInv /\ DirectoryInv /\ BucketInv
  BY <1>1, Constants DEF Init, BuilderInv, DirectoryInv, BucketInv
<1>3. ReleaseInv /\ HostInv /\ DownloadInv /\ GotInv
  BY DEF Init, ReleaseInv, HostInv, DownloadInv, GotInv, Reloading
<1> QED
  BY <1>1, <1>2, <1>3 DEF Inv

-----------------------------------------------------------------------------
(* The builder.  Nothing it does touches a reload: builds only grow, so a  *)
(* release whose directory is still there was there before.                *)
LEMMA BuilderLeavesReload ==
  ASSUME Inv, TypeOK', UNCHANGED <<kind, prov, reloadVars>>,
         complete \subseteq complete', builds' \in {builds, builds + 1}
  PROVE  HostInv' /\ DownloadInv' /\ GotInv'
<1> USE DEF reloadVars
<1>1. HostInv'
  BY DEF Inv, HostInv, Reloading
<1>2. DownloadInv'
  BY DEF Inv, DownloadInv
<1>3. GotInv'
  <2> SUFFICES ASSUME pc \in {"assets", "download", "running"}, Current'
               PROVE  \A n \in AssetsOf[rel] \ wanted : got[n] = rel
    BY DEF GotInv
  <2>1. rel \in 1 .. builds
    BY DEF Inv, HostInv, Reloading, BuilderInv
  <2>2. Current
    BY <2>1, Constants DEF Inv, TypeOK, Current
  <2> QED
    BY <2>2 DEF Inv, GotInv
<1> QED
  BY <1>1, <1>2, <1>3

LEMMA StartBuildInv == Inv /\ StartBuild => Inv'
<1> SUFFICES ASSUME Inv, StartBuild PROVE Inv'
  OBVIOUS
<1> USE DEF StartBuild
<1>1. builds + 1 \in Releases \ complete
  BY BoundAssumption DEF Inv, TypeOK, BuilderInv, Releases
<1>2. TypeOK'
  BY <1>1, Constants DEF Inv, TypeOK, NoFiles, Content, installVars, reloadVars
<1>3. BuilderInv'
  BY <1>1, Constants DEF Inv, TypeOK, BuilderInv
<1>4. DirectoryInv'
  BY <1>1 DEF Inv, DirectoryInv
<1>5. BucketInv'
  BY <1>1, Constants DEF Inv, TypeOK, BucketInv, ArchiveDir
<1>6. ReleaseInv'
  BY Constants DEF Inv, TypeOK, ReleaseInv
<1>7. HostInv' /\ DownloadInv' /\ GotInv'
  BY <1>2, BuilderLeavesReload
<1> QED
  BY <1>2, <1>3, <1>4, <1>5, <1>6, <1>7 DEF Inv

LEMMA PackAssetInv == ASSUME NEW n \in Names PROVE Inv /\ PackAsset(n) => Inv'
<1> SUFFICES ASSUME Inv, PackAsset(n) PROVE Inv'
  OBVIOUS
<1> DEFINE c == IF files[ArchiveDir][n] = Partial THEN builds ELSE Partial
<1> HIDE DEF c
<1>1. /\ build = "packing" /\ n \in left /\ build' = build
      /\ files' = [files EXCEPT ![ArchiveDir][n] = c]
      /\ left' = left \/ (left' = left \ {n} /\ c = builds)
      /\ UNCHANGED <<kind, builds, complete, file, installVars, prov, reloadVars, faults>>
  BY DEF PackAsset, c
<1>2. builds \in Releases \ complete /\ c \in Content /\ left \subseteq AssetsOf[builds]
  BY <1>1 DEF Inv, BuilderInv, Content, c
<1>3. TypeOK'
  BY <1>1, <1>2, Constants DEF Inv, TypeOK, installVars, reloadVars
<1>4. BuilderInv'
  BY <1>1 DEF Inv, BuilderInv
<1>5. DirectoryInv'
  BY <1>1, <1>2, Constants DEF Inv, TypeOK, DirectoryInv
<1>6. BucketInv'
  BY <1>1, <1>2, Constants DEF Inv, TypeOK, BucketInv
<1>7. ReleaseInv'
  BY <1>1 DEF Inv, ReleaseInv
<1>8. HostInv' /\ DownloadInv' /\ GotInv'
  BY <1>1, <1>3, BuilderLeavesReload
<1> QED
  BY <1>3, <1>4, <1>5, <1>6, <1>7, <1>8 DEF Inv

LEMMA WriteArchiveInv == Inv /\ WriteArchive => Inv'
<1> SUFFICES ASSUME Inv, WriteArchive PROVE Inv'
  OBVIOUS
<1>1. /\ builds \in Releases \ complete /\ build = "packing" /\ left = {}
      /\ UNCHANGED <<kind, builds, files, installVars, prov, reloadVars, faults>>
      /\ \/ /\ kind = "dir" /\ build' = "idle" /\ left' = left
            /\ complete' = complete \cup {builds} /\ file' = builds
         \/ /\ kind = "s3" /\ build' = "uploading" /\ left' = AssetsOf[builds]
            /\ complete' = complete /\ file' = file
  BY DEF Inv, TypeOK, BuilderInv, WriteArchive
<1>2. \A n \in AssetsOf[builds] : files[ArchiveDir][n] = builds
  BY <1>1 DEF Inv, DirectoryInv
<1>3. TypeOK'
  <2>1. left' \subseteq Names /\ complete' \subseteq Releases /\ file' \in Releases \cup {None}
    BY <1>1, Constants DEF Inv, TypeOK
  <2> QED
    BY <1>1, <2>1 DEF Inv, TypeOK, installVars, reloadVars
<1>4. BuilderInv'
  <2>1. complete' \subseteq complete \cup {builds}
    BY <1>1
  <2>2. complete \subseteq 1 .. builds /\ builds \in 1 .. builds
    BY <1>1, BoundAssumption DEF Inv, BuilderInv, Releases
  <2>3. build' # "idle" => builds \in Releases \ complete' /\ left' \subseteq AssetsOf[builds]
    BY <1>1
  <2> QED
    BY <1>1, <2>1, <2>2, <2>3 DEF BuilderInv
<1>5. DirectoryInv'
  BY <1>1, <1>2 DEF Inv, DirectoryInv
<1>6. BucketInv'
  BY <1>1 DEF Inv, TypeOK, BucketInv
<1>7. ReleaseInv'
  BY <1>1, Constants, BoundAssumption DEF Inv, TypeOK, BuilderInv, ReleaseInv, Releases
<1>8. HostInv' /\ DownloadInv' /\ GotInv'
  BY <1>1, <1>3, BuilderLeavesReload
<1> QED
  BY <1>3, <1>4, <1>5, <1>6, <1>7, <1>8 DEF Inv

LEMMA UploadInv == ASSUME NEW n \in Names PROVE Inv /\ Upload(n) => Inv'
<1> SUFFICES ASSUME Inv, Upload(n) PROVE Inv'
  OBVIOUS
<1> USE DEF Upload, Prefix
<1>1. /\ builds \in Releases \ complete /\ kind = "s3"
      /\ n \in AssetsOf[builds] /\ files[ArchiveDir][n] = builds
  BY DEF Inv, BuilderInv, DirectoryInv
<1>2. files' = [files EXCEPT ![builds][n] = builds]
  BY <1>1
<1>3. TypeOK'
  BY <1>1, <1>2, Constants DEF Inv, TypeOK, Content, installVars, reloadVars
<1>4. BuilderInv'
  BY DEF Inv, BuilderInv
<1>5. DirectoryInv'
  BY <1>1, <1>2, Constants DEF Inv, TypeOK, DirectoryInv
<1>6. BucketInv'
  BY <1>1, <1>2, Constants DEF Inv, TypeOK, BucketInv
<1>7. ReleaseInv'
  BY DEF Inv, ReleaseInv
<1>8. HostInv' /\ DownloadInv' /\ GotInv'
  BY <1>3, BuilderLeavesReload
<1> QED
  BY <1>3, <1>4, <1>5, <1>6, <1>7, <1>8 DEF Inv

LEMMA EndUploadInv == Inv /\ EndUpload => Inv'
<1> SUFFICES ASSUME Inv, EndUpload PROVE Inv'
  OBVIOUS
<1> USE DEF EndUpload
<1>1. builds \in Releases \ complete /\ kind = "s3"
  BY DEF Inv, BuilderInv
<1>2. \A n \in AssetsOf[builds] : files[builds][n] = builds
  BY DEF Inv, BucketInv
<1>3. TypeOK'
  BY <1>1 DEF Inv, TypeOK, installVars, reloadVars
<1>4. BuilderInv'
  BY <1>1, Constants, BoundAssumption DEF Inv, TypeOK, BuilderInv, Releases
<1>5. DirectoryInv'
  BY <1>1 DEF Inv, DirectoryInv
<1>6. BucketInv'
  BY <1>1, <1>2 DEF Inv, BucketInv
<1>7. ReleaseInv'
  BY DEF Inv, ReleaseInv
<1>8. HostInv' /\ DownloadInv' /\ GotInv'
  BY <1>3, BuilderLeavesReload
<1> QED
  BY <1>3, <1>4, <1>5, <1>6, <1>7, <1>8 DEF Inv

LEMMA BuildFailsInv == Inv /\ BuildFails => Inv'
<1> SUFFICES ASSUME Inv, BuildFails PROVE Inv'
  OBVIOUS
<1> USE DEF BuildFails
<1>1. TypeOK'
  BY DEF Inv, TypeOK, installVars, reloadVars
<1>2. BuilderInv' /\ DirectoryInv' /\ BucketInv' /\ ReleaseInv'
  BY DEF Inv, BuilderInv, DirectoryInv, BucketInv, ReleaseInv
<1>3. HostInv' /\ DownloadInv' /\ GotInv'
  BY <1>1, BuilderLeavesReload
<1> QED
  BY <1>1, <1>2, <1>3 DEF Inv

LEMMA DeployInv == ASSUME NEW x \in Releases PROVE Inv /\ Deploy(x) => Inv'
<1> SUFFICES ASSUME Inv, Deploy(x) PROVE Inv'
  OBVIOUS
<1> USE DEF Deploy
<1>1. TypeOK'
  BY DEF Inv, TypeOK, installVars, reloadVars
<1>2. BuilderInv' /\ DirectoryInv' /\ BucketInv'
  BY DEF Inv, BuilderInv, DirectoryInv, BucketInv
<1>3. ReleaseInv'
  BY Constants, BoundAssumption DEF Inv, TypeOK, ReleaseInv, Releases
<1>4. HostInv' /\ DownloadInv' /\ GotInv'
  BY <1>1, BuilderLeavesReload
<1> QED
  BY <1>1, <1>2, <1>3, <1>4 DEF Inv

(* Everything but the types depends on none of installVars and forced.     *)
LEMMA InstallLeavesRest ==
  ASSUME Inv, TypeOK', UNCHANGED <<kind, builderVars, prov, pc, rel, wanted, url, got>>
  PROVE  Inv'
<1> USE DEF builderVars
<1>1. BuilderInv' /\ DirectoryInv' /\ BucketInv' /\ ReleaseInv'
  BY DEF Inv, BuilderInv, DirectoryInv, BucketInv, ReleaseInv
<1>2. HostInv' /\ DownloadInv' /\ GotInv'
  BY DEF Inv, HostInv, DownloadInv, GotInv, Reloading, Current
<1> QED
  BY <1>1, <1>2 DEF Inv

LEMMA BundleAgentInv == ASSUME NEW v \in Versions PROVE Inv /\ BundleAgent(v) => Inv'
<1> SUFFICES ASSUME Inv, BundleAgent(v) PROVE Inv'
  OBVIOUS
<1> USE DEF BundleAgent
<1>1. TypeOK'
  BY DEF Inv, TypeOK, builderVars, reloadVars
<1> QED
  BY <1>1, InstallLeavesRest DEF reloadVars

-----------------------------------------------------------------------------
(* The provider.  What it loads is no older than what it had.              *)
LEMMA ProviderStartsInv == Inv /\ ProviderStarts => Inv'
<1> SUFFICES ASSUME Inv, ProviderStarts PROVE Inv'
  OBVIOUS
<1>1. UNCHANGED <<kind, builderVars, installVars, reloadVars, faults>>
  BY DEF ProviderStarts
<1>2. /\ TypeOK' /\ ReleaseInv'
      /\ \/ prov'.release = prov.release
         \/ /\ prov'.release \in complete
            /\ prov.release # None => prov.release <= prov'.release
  <2>1. CASE /\ prov.at = "down"
             /\ \E v \in NewVersions : prov' = [prov EXCEPT !.at = "inventory", !.version = v]
    <3>1. PICK v \in NewVersions : prov' = [prov EXCEPT !.at = "inventory", !.version = v]
      BY <2>1
    <3>2. v \in Versions
      BY Constants DEF Inv, TypeOK, NewVersions, Versions
    <3>3. /\ prov' \in [at : {"down", "inventory", "archive", "listening"},
                       release : Releases \cup {None}, version : Versions]
          /\ prov'.release = prov.release /\ prov'.at = "inventory"
      BY <3>1, <3>2 DEF Inv, TypeOK
    <3>4. TypeOK'
      BY <1>1, <3>3 DEF Inv, TypeOK, builderVars, installVars, reloadVars
    <3>5. ReleaseInv'
      BY <1>1, <3>3 DEF Inv, ReleaseInv, builderVars
    <3> QED
      BY <3>3, <3>4, <3>5
  <2>2. CASE /\ prov.at = "inventory"
             /\ prov' = IF file = None THEN [prov EXCEPT !.at = "down"]
                                       ELSE [prov EXCEPT !.at = "archive", !.release = file]
    <3>1. TypeOK'
      <4>1. prov' \in [at : {"down", "inventory", "archive", "listening"},
                       release : Releases \cup {None}, version : Versions]
        BY <2>2 DEF Inv, TypeOK
      <4> QED
        BY <1>1, <4>1 DEF Inv, TypeOK, builderVars, installVars, reloadVars
    <3>2. ReleaseInv' /\ (prov'.release = prov.release \/ prov'.release \in complete)
      BY <1>1, <2>2, Constants DEF Inv, TypeOK, ReleaseInv, builderVars
    <3>3. prov'.release # prov.release /\ prov.release # None => prov.release <= prov'.release
      BY <1>1, <2>2 DEF Inv, TypeOK, ReleaseInv
    <3> QED
      BY <3>1, <3>2, <3>3
  <2>3. CASE prov.at = "archive" /\ prov' = [prov EXCEPT !.at = "listening"]
    BY <1>1, <2>3 DEF Inv, TypeOK, ReleaseInv, builderVars, installVars, reloadVars
  <2> QED
    BY <2>1, <2>2, <2>3 DEF ProviderStarts
<1>3. BuilderInv' /\ DirectoryInv' /\ BucketInv'
  BY <1>1 DEF Inv, BuilderInv, DirectoryInv, BucketInv, builderVars
<1>4. Reloading => /\ rel \in Nat /\ prov.release \in Nat /\ prov'.release \in Nat
                   /\ rel <= prov.release /\ prov.release <= prov'.release
                   /\ prov'.release \in complete
  <2> SUFFICES ASSUME Reloading
               PROVE  /\ rel \in Nat /\ prov.release \in Nat /\ prov'.release \in Nat
                      /\ rel <= prov.release /\ prov.release <= prov'.release
                      /\ prov'.release \in complete
    OBVIOUS
  <2>1. rel \in complete /\ prov.release \in complete /\ rel <= prov.release
    BY DEF Inv, HostInv
  <2>2. complete \subseteq Releases
    BY DEF Inv, TypeOK
  <2>3. rel \in Nat /\ prov.release \in Nat /\ prov.release # None
    BY <2>1, <2>2, Constants
  <2>4. prov'.release \in complete /\ prov'.release \in Nat /\ prov.release <= prov'.release
    <3>1. CASE prov'.release = prov.release
      BY <2>1, <2>3, <3>1
    <3>2. CASE prov'.release \in complete /\ (prov.release # None => prov.release <= prov'.release)
      BY <2>2, <2>3, <3>2, Constants
    <3> QED
      BY <1>2, <3>1, <3>2
  <2> QED
    BY <2>1, <2>3, <2>4
<1>5. HostInv'
  BY <1>1, <1>4 DEF Inv, HostInv, Reloading, builderVars, reloadVars
<1>6. DownloadInv'
  BY <1>1, <1>4, Constants, BoundAssumption DEF Inv, TypeOK, DownloadInv, Reloading, builderVars, reloadVars, Releases
<1>7. GotInv'
  BY <1>1, <1>4 DEF Inv, GotInv, Current, Reloading, builderVars, reloadVars
<1> QED
  BY <1>2, <1>3, <1>5, <1>6, <1>7 DEF Inv

LEMMA ProviderStopsInv == Inv /\ ProviderStops => Inv'
<1> SUFFICES ASSUME Inv, ProviderStops PROVE Inv'
  OBVIOUS
<1>1. /\ prov' = [prov EXCEPT !.at = "down"]
      /\ UNCHANGED <<kind, builderVars, installVars, reloadVars, faults>>
  BY DEF ProviderStops
<1>2. prov'.release = prov.release /\ prov'.at = "down" /\ TypeOK'
  BY <1>1 DEF Inv, TypeOK, builderVars, installVars, reloadVars
<1>3. BuilderInv' /\ DirectoryInv' /\ BucketInv' /\ ReleaseInv'
  BY <1>1, <1>2 DEF Inv, BuilderInv, DirectoryInv, BucketInv, ReleaseInv, builderVars
<1>4. HostInv' /\ DownloadInv' /\ GotInv'
  BY <1>1, <1>2 DEF Inv, HostInv, DownloadInv, GotInv, Reloading, Current, builderVars, reloadVars
<1> QED
  BY <1>2, <1>3, <1>4 DEF Inv

-----------------------------------------------------------------------------
(* The host.                                                               *)
LEMMA InstallInv == Inv /\ Install => Inv'
<1> SUFFICES ASSUME Inv, Install PROVE Inv'
  OBVIOUS
<1>1. UNCHANGED <<kind, builderVars, bundle, config, prov, reloadVars, faults>>
  BY DEF Install
<1>2. /\ inst' \in [at : {"idle", "script", "file", "bootstrap"}, version : Versions]
      /\ binary' \in Versions \cup {None, Partial}
  <2>1. CASE inst.at = "idle" /\ inst' = [inst EXCEPT !.at = "script"] /\ UNCHANGED binary
    BY <2>1 DEF Inv, TypeOK
  <2>2. CASE /\ inst' = IF Answers THEN [at |-> "file", version |-> prov.version]
                                   ELSE [inst EXCEPT !.at = "idle"]
             /\ UNCHANGED binary
    BY <2>2 DEF Inv, TypeOK
  <2>3. CASE inst' = [inst EXCEPT !.at = "idle"] /\ UNCHANGED binary
    BY <2>3 DEF Inv, TypeOK
  <2>4. CASE /\ binary' = bundle[inst.version]
             /\ inst' \in {[inst EXCEPT !.at = "idle"], [inst EXCEPT !.at = "bootstrap"]}
    BY <2>4 DEF Inv, TypeOK
  <2> QED
    BY <2>1, <2>2, <2>3, <2>4 DEF Install
<1>3. TypeOK'
  BY <1>1, <1>2 DEF Inv, TypeOK, builderVars, reloadVars
<1> QED
  BY <1>1, <1>3, InstallLeavesRest DEF reloadVars

(* A reload that is not under way has nothing to keep.                     *)
LEMMA HostBegins ==
  ASSUME Inv, TypeOK', UNCHANGED <<kind, builderVars, prov>>,
         pc' \in {"idle", "hung", "asking"}
  PROVE  Inv'
<1> USE DEF builderVars
<1>1. BuilderInv' /\ DirectoryInv' /\ BucketInv' /\ ReleaseInv'
  BY DEF Inv, BuilderInv, DirectoryInv, BucketInv, ReleaseInv
<1>2. HostInv' /\ DownloadInv' /\ GotInv'
  BY DEF HostInv, DownloadInv, GotInv, Reloading
<1> QED
  BY <1>1, <1>2 DEF Inv

LEMMA BootstrapInv == Inv /\ Bootstrap => Inv'
<1> SUFFICES ASSUME Inv, Bootstrap PROVE Inv'
  OBVIOUS
<1>1. /\ UNCHANGED <<kind, builderVars, bundle, binary, prov, rel, wanted, url, got, recorded, ran, faults>>
      /\ inst' = [inst EXCEPT !.at = "idle"]
      /\ \/ config' = TRUE /\ pc' = "asking" /\ forced' = TRUE
         \/ UNCHANGED <<config, pc, forced>>
  BY DEF Bootstrap
<1>2. pc' \in {"idle", "hung", "asking"}
  BY <1>1 DEF Bootstrap, Resting
<1>3. inst' \in [at : {"idle", "script", "file", "bootstrap"}, version : Versions]
  BY <1>1 DEF Inv, TypeOK
<1>4. config' \in BOOLEAN /\ forced' \in BOOLEAN
  BY <1>1 DEF Inv, TypeOK
<1>5. TypeOK'
  BY <1>1, <1>2, <1>3, <1>4 DEF Inv, TypeOK, builderVars
<1> QED
  BY <1>1, <1>2, <1>5, HostBegins

LEMMA PollInv == Inv /\ Poll => Inv'
<1> SUFFICES ASSUME Inv, Poll PROVE Inv'
  OBVIOUS
<1>1. pc' = "asking" /\ forced' \in BOOLEAN
  BY DEF Poll
<1>2. TypeOK'
  BY <1>1 DEF Inv, TypeOK, Poll, builderVars, installVars
<1> QED
  BY <1>1, <1>2, HostBegins DEF Poll

LEMMA ReloadFailsInv == Inv /\ ReloadFails => Inv'
<1> SUFFICES ASSUME Inv, ReloadFails PROVE Inv'
  OBVIOUS
<1>1. pc' \in {"idle", "hung"} /\ faults' \in 0 .. MaxFaults
  BY Constants DEF Inv, TypeOK, ReloadFails, Fault
<1>2. TypeOK'
  BY <1>1 DEF Inv, TypeOK, ReloadFails, builderVars, installVars
<1> QED
  BY <1>1, <1>2, HostBegins DEF ReloadFails

(* The steps of a reload leave the builder and the provider alone.         *)
LEMMA ReloadLeavesRest ==
  ASSUME Inv, UNCHANGED <<kind, builderVars, prov>>
  PROVE  BuilderInv' /\ DirectoryInv' /\ BucketInv' /\ ReleaseInv'
BY DEF Inv, BuilderInv, DirectoryInv, BucketInv, ReleaseInv, builderVars

(* What the next step of a reload finds where it was sent, as long as the  *)
(* release is still to be had.                                             *)
LEMMA FindsOwn ==
  ASSUME Inv, pc = "download", Current, NEW n, n = url[2]
  PROVE  n \in AssetsOf[rel] /\ files[url[1]][n] = rel
<1>1. n \in AssetsOf[rel] /\ n \in Names /\ url[1] \in Locations
  BY DEF Inv, TypeOK, DownloadInv
<1>2. rel \in complete /\ rel \in Releases /\ rel \in Nat
  BY Constants DEF Inv, TypeOK, HostInv, Reloading
<1>3. CASE kind = "dir"
  BY <1>1, <1>2, <1>3 DEF Inv, Current, DirectoryInv, DownloadInv
<1>4. CASE kind = "s3"
  <2>1. url[1] \in Nat /\ rel <= url[1] /\ url[1] <= rel
    BY <1>4, Constants DEF Inv, DownloadInv, Current
  <2>2. url[1] = rel
    BY <1>2, <2>1
  <2> QED
    BY <1>1, <1>2, <1>4, <2>2 DEF Inv, BucketInv
<1> QED
  BY <1>3, <1>4 DEF Inv, TypeOK

LEMMA AskReleaseInv == Inv /\ Reload /\ AskRelease => Inv'
<1> SUFFICES ASSUME Inv, Reload, AskRelease PROVE Inv'
  OBVIOUS
<1>1. UNCHANGED <<kind, builderVars, installVars, prov, forced, faults>>
  BY DEF Reload
<1>2. /\ UNCHANGED <<wanted, url, got, recorded, ran>>
      /\ \/ pc' = "config" /\ rel' = prov.release /\ Answers
         \/ pc' = "idle" /\ rel' = rel
  BY DEF AskRelease, GiveUp
<1>3. TypeOK'
  <2>1. prov.release \in Releases \cup {None}
    BY DEF Inv, TypeOK
  <2>2. rel' \in Releases \cup {None} /\ pc' \in {"idle", "config"}
    BY <1>2, <2>1 DEF Inv, TypeOK
  <2> QED
    BY <1>1, <1>2, <2>2 DEF Inv, TypeOK, builderVars, installVars
<1>4. CASE pc' = "idle"
  BY <1>1, <1>3, <1>4, HostBegins
<1>5. CASE pc' = "config" /\ rel' = prov.release /\ Answers
  <2>1. prov.release \in complete /\ prov.release \in Nat
    BY <1>5, Constants DEF Inv, TypeOK, ReleaseInv, Answers
  <2>2. HostInv'
    BY <1>1, <1>5, <2>1 DEF HostInv, builderVars
  <2>3. DownloadInv' /\ GotInv'
    BY <1>5 DEF DownloadInv, GotInv
  <2> QED
    BY <1>1, <1>3, <2>2, <2>3, ReloadLeavesRest DEF Inv
<1> QED
  BY <1>2, <1>4, <1>5

LEMMA FetchConfigInv == Inv /\ Reload /\ FetchConfig => Inv'
<1> SUFFICES ASSUME Inv, Reload, FetchConfig PROVE Inv'
  OBVIOUS
<1>1. UNCHANGED <<kind, builderVars, installVars, prov, forced, faults>>
  BY DEF Reload
<1>2. /\ UNCHANGED <<rel, url, recorded, ran>> /\ pc = "config"
      /\ \/ pc' = "assets" /\ wanted' = AssetsOf[rel] /\ got' = NoFiles
         \/ pc' = "idle" /\ UNCHANGED <<wanted, got>>
  BY DEF FetchConfig, GiveUp
<1>3. rel \in complete /\ rel \in Releases
  BY <1>2 DEF Inv, TypeOK, HostInv, Reloading
<1>4. TypeOK'
  <2>1. NoFiles \in [Names -> Content] /\ AssetsOf[rel] \subseteq Names
    BY <1>3, Constants DEF NoFiles, Content
  <2>2. got' \in [Names -> Content] /\ wanted' \subseteq Names /\ pc' \in {"assets", "idle"}
    BY <1>2, <2>1 DEF Inv, TypeOK
  <2> QED
    BY <1>1, <1>2, <2>2 DEF Inv, TypeOK, builderVars, installVars
<1>5. CASE pc' = "idle"
  BY <1>1, <1>4, <1>5, HostBegins
<1>6. CASE pc' = "assets" /\ wanted' = AssetsOf[rel]
  <2>1. HostInv'
    BY <1>1, <1>2 DEF Inv, HostInv, Reloading, builderVars
  <2>2. DownloadInv' /\ GotInv'
    BY <1>2, <1>6 DEF DownloadInv, GotInv
  <2> QED
    BY <1>1, <1>4, <2>1, <2>2, ReloadLeavesRest DEF Inv
<1> QED
  BY <1>2, <1>5, <1>6

LEMMA AskUrlInv == Inv /\ Reload /\ AskUrl => Inv'
<1> SUFFICES ASSUME Inv, Reload, AskUrl PROVE Inv'
  OBVIOUS
<1> DEFINE place == IF kind = "dir" THEN ArchiveDir ELSE prov.release
<1>1. UNCHANGED <<kind, builderVars, installVars, prov, forced, faults>>
  BY DEF Reload
<1>2. /\ UNCHANGED <<rel, wanted, got, recorded, ran>> /\ pc = "assets"
      /\ \/ pc' = "running" /\ wanted = {} /\ url' = url
         \/ pc' = "idle" /\ url' = url
         \/ pc' = "download" /\ \E n \in wanted : url' = <<place, n>>
  BY DEF AskUrl, GiveUp, Prefix
<1>3. /\ rel \in complete /\ prov.release \in complete /\ rel <= prov.release
      /\ complete \subseteq Releases /\ wanted \subseteq Names
      /\ wanted \subseteq AssetsOf[rel] /\ kind \in {"dir", "s3"}
  BY <1>2 DEF Inv, TypeOK, HostInv, Reloading, DownloadInv
<1>4. place \in Locations
  BY <1>3, Constants
<1> HIDE DEF place
<1>5. TypeOK'
  <2>1. url' \in {None} \cup (Locations \X Names) /\ pc' \in {"running", "idle", "download"}
    BY <1>2, <1>3, <1>4 DEF Inv, TypeOK
  <2> QED
    BY <1>1, <1>2, <2>1 DEF Inv, TypeOK, builderVars, installVars
<1>6. HostInv'
  BY <1>1, <1>2 DEF Inv, HostInv, Reloading, builderVars
<1>7. GotInv'
  BY <1>1, <1>2 DEF Inv, GotInv, Current, builderVars
<1>8. CASE pc' = "idle"
  BY <1>1, <1>5, <1>8, HostBegins
<1>9. CASE pc' = "running" /\ wanted = {}
  <2>1. DownloadInv'
    BY <1>2, <1>9 DEF DownloadInv
  <2> QED
    BY <1>1, <1>5, <1>6, <1>7, <2>1, ReloadLeavesRest DEF Inv
<1>10. CASE pc' = "download" /\ \E n \in wanted : url' = <<place, n>>
  <2>1. PICK n \in wanted : url' = <<place, n>>
    BY <1>10
  <2>2. url' \in Locations \X Names /\ url'[1] = place /\ url'[2] \in wanted
    BY <1>3, <1>4, <2>1
  <2>3. prov.release <= prov.release
    <3>1. prov.release \in Releases
      BY <1>3
    <3>2. prov.release \in Nat
      BY <3>1, Constants
    <3> QED
      BY <3>2
  <2>4. DownloadInv'
    BY <1>1, <1>2, <1>3, <1>10, <2>2, <2>3, Constants DEF DownloadInv, place
  <2> QED
    BY <1>1, <1>5, <1>6, <1>7, <2>4, ReloadLeavesRest DEF Inv
<1> QED
  BY <1>2, <1>8, <1>9, <1>10

LEMMA DownloadStepInv == Inv /\ Reload /\ Download => Inv'
<1> SUFFICES ASSUME Inv, Reload, Download PROVE Inv'
  OBVIOUS
<1> DEFINE n == url[2]
           content == files[url[1]][n]
<1>1. UNCHANGED <<kind, builderVars, installVars, prov, forced, faults>>
  BY DEF Reload
<1>2. /\ UNCHANGED <<rel, url, recorded, ran>> /\ pc = "download"
      /\ \/ /\ pc' = "assets" /\ got' = [got EXCEPT ![n] = content] /\ wanted' = wanted \ {n}
         \/ pc' = "idle" /\ UNCHANGED <<wanted, got>>
  BY DEF Download, GiveUp
<1>3. /\ url \in Locations \X Names /\ n \in wanted /\ wanted \subseteq AssetsOf[rel]
      /\ wanted \subseteq Names
  BY <1>2 DEF Inv, TypeOK, DownloadInv
<1>4. content \in Content
  BY <1>3 DEF Inv, TypeOK
<1>5. Current => content = rel
  BY <1>2, FindsOwn
<1> HIDE DEF content, n
<1>6. TypeOK'
  <2>1. got' \in [Names -> Content] /\ wanted' \subseteq Names /\ pc' \in {"assets", "idle"}
    BY <1>2, <1>4 DEF Inv, TypeOK
  <2> QED
    BY <1>1, <1>2, <2>1 DEF Inv, TypeOK, builderVars, installVars
<1>7. CASE pc' = "idle"
  BY <1>1, <1>6, <1>7, HostBegins
<1>8. CASE /\ pc' = "assets" /\ got' = [got EXCEPT ![n] = content] /\ wanted' = wanted \ {n}
  <2>1. HostInv'
    BY <1>1, <1>2 DEF Inv, HostInv, Reloading, builderVars
  <2>2. DownloadInv'
    BY <1>2, <1>3, <1>8 DEF DownloadInv
  <2>3. GotInv'
    <3> SUFFICES ASSUME Current, NEW m \in AssetsOf[rel], m \notin wanted \/ m = n
                 PROVE  got'[m] = rel
      BY <1>1, <1>2, <1>8 DEF GotInv, Current, builderVars
    <3>1. m \in Names
      BY Constants, <1>2 DEF Inv, TypeOK, HostInv, Reloading
    <3>2. m # n => got[m] = rel
      BY <1>2 DEF Inv, GotInv
    <3> QED
      BY <1>5, <1>8, <3>1, <3>2 DEF Inv, TypeOK
  <2> QED
    BY <1>1, <1>6, <2>1, <2>2, <2>3, ReloadLeavesRest DEF Inv
<1> QED
  BY <1>2, <1>7, <1>8

LEMMA RunInv == Inv /\ Reload /\ (Run \/ Record) => Inv'
<1> SUFFICES ASSUME Inv, Reload, Run \/ Record PROVE Inv'
  OBVIOUS
<1>1. UNCHANGED <<kind, builderVars, installVars, prov, forced, faults>>
  BY DEF Reload
<1>2. /\ UNCHANGED <<rel, wanted, url, got>>
      /\ pc' \in {"idle", "saving"} /\ (pc' = "saving" => pc = "running")
      /\ ran' = ran \/ ran' = [release |-> rel, got |-> got]
      /\ recorded' = recorded \/ recorded' = rel
  BY DEF Run, Record, GiveUp
<1>3. TypeOK'
  <2>1. ran' \in [release : Releases \cup {None}, got : [Names -> Content]]
        /\ recorded' \in Releases \cup {None}
    BY <1>2 DEF Inv, TypeOK
  <2> QED
    BY <1>1, <1>2, <2>1 DEF Inv, TypeOK, builderVars, installVars
<1>4. HostInv' /\ DownloadInv' /\ GotInv'
  BY <1>1, <1>2 DEF Inv, HostInv, DownloadInv, GotInv, Reloading, builderVars
<1> QED
  BY <1>1, <1>3, <1>4, ReloadLeavesRest DEF Inv

LEMMA NextInv == Inv /\ [Next]_vars => Inv'
<1> SUFFICES ASSUME Inv, [Next]_vars PROVE Inv'
  OBVIOUS
<1>1. CASE Builder
  <2>1. ASSUME NEW n \in Names, PackAsset(n) \/ Upload(n) PROVE Inv'
    BY <2>1, PackAssetInv, UploadInv
  <2>2. ASSUME NEW x \in Releases, Deploy(x) PROVE Inv'
    BY <2>2, DeployInv
  <2>3. ASSUME NEW v \in Versions, BundleAgent(v) PROVE Inv'
    BY <2>3, BundleAgentInv
  <2> QED
    BY <1>1, <2>1, <2>2, <2>3, StartBuildInv, WriteArchiveInv, EndUploadInv, BuildFailsInv DEF Builder
<1>2. CASE ProviderStarts \/ ProviderStops
  BY <1>2, ProviderStartsInv, ProviderStopsInv
<1>3. CASE Install \/ Bootstrap \/ Poll \/ ReloadFails
  BY <1>3, InstallInv, BootstrapInv, PollInv, ReloadFailsInv
<1>4. CASE Reload
  <2>1. AskRelease \/ FetchConfig \/ AskUrl \/ Download \/ Run \/ Record
    BY <1>4 DEF Reload
  <2> QED
    BY <1>4, <2>1, AskReleaseInv, FetchConfigInv, AskUrlInv, DownloadStepInv, RunInv
<1>5. CASE UNCHANGED vars
  <2>1. TypeOK'
    BY <1>5 DEF Inv, TypeOK, vars, builderVars, installVars, reloadVars
  <2> QED
    BY <1>5, <2>1, InstallLeavesRest DEF vars, reloadVars
<1> QED
  BY <1>1, <1>2, <1>3, <1>4, <1>5 DEF Next

-----------------------------------------------------------------------------
(* Every reachable state of builder, provider and host is well typed.      *)
THEOREM DeliveryTypeCorrect == Spec => []TypeOK
<1>1. Inv => TypeOK
  BY DEF Inv
<1> QED
  BY <1>1, InitInv, NextInv, PTL DEF Spec

(* The provider holds a release that was built to its end, and a reload    *)
(* one that is not newer: the provider may move on under it, never back.   *)
THEOREM ReleasesWereFinished == Spec => [](ReleaseInv /\ HostInv)
<1>1. Inv => ReleaseInv /\ HostInv
  BY DEF Inv
<1> QED
  BY <1>1, InitInv, NextInv, PTL DEF Spec

(* A reload runs its release with the assets packed for it, for as long as *)
(* the provider has that release and its directory was not begun anew.     *)
THEOREM AssetsAreOwn == Spec => []OwnAssets
<1>1. Inv => OwnAssets
  BY DEF Inv, DownloadInv, GotInv, Current, OwnAssets
<1> QED
  BY <1>1, InitInv, NextInv, PTL DEF Spec
=============================================================================
