---------------------------- MODULE ServerConfig ----------------------------
(***************************************************************************)
(* How protocube arrives at the configuration of a server: the software and *)
(* blueprint definitions on its disk, the registries they are loaded and    *)
(* reloaded into (software with an update from a remote URL), and            *)
(* BuildServerConfiguration, which layers software, blueprint and the        *)
(* overrides of the request (protocube/software, protocube/blueprint,        *)
(* protocube/server/configuration.go and config_parser.go).                  *)
(*                                                                         *)
(* A definition file is a record; kind tells a file that fails YAML or its   *)
(* validation ("bad") and one that is YAML without the required section      *)
(* ("blank") from a good one ("ok").  Fields that are only copied (names,     *)
(* commands, annotations) are left out.  Reloads are HTTP handlers that run   *)
(* side by side, one step per access to the disk or to a registry.           *)
(***************************************************************************)
EXTENDS Integers, Sequences, FiniteSets, SequencesExt, TLC

CONSTANTS
  SoftwarePaths,   \* files below the software root, in the order of the walk
  BlueprintPaths,  \* files below the blueprints root, in the order of the walk
  SoftwareDefs,    \* contents a software file may have
  BlueprintDefs,   \* contents a blueprint file may have
  StartSoftware,   \* what the two roots may hold when the process starts
  StartBlueprints,
  Remotes,         \* what the update URL may answer: definitions, Unreachable
  Parsed,          \* the numbers parseVersion finds in each version text
  OverrideSets,    \* overrides a request may carry
  LateOverrides,   \* the ones tried after a reload or an edit
  Ports,           \* ports a server may be allocated
  Defaults,        \* the default tags of environment.Limits
  Reloaders,       \* handlers that may reload at the same time
  MaxReloads, MaxEdits, MaxServers

ASSUME BoundsAssumption ==
  /\ MaxReloads \in Nat /\ MaxEdits \in Nat /\ MaxServers \in Nat
  /\ Len(SoftwarePaths) > 0 /\ Len(BlueprintPaths) > 0

Absent == [kind |-> "absent"]
Unreachable == [kind |-> "unreachable"]
Unset == "unset"
Empty == <<>>

VARIABLES
  swDisk, bpDisk,   \* the definition files
  tmp,              \* <path>.tmp of an update
  sws, bps,         \* software.Registry and blueprint.Registry
  reload,           \* what each handler is doing
  cfg,              \* the server's configuration, as protocube built it
  servers, reloads, edits,
  current,          \* the software registry should be what the disk says
  blanked           \* an update wrote a file without a software section

pvars == <<swDisk, bpDisk, tmp, sws, bps, reload, cfg, servers, reloads, edits,
           current, blanked>>

SwFiles == ToSet(SoftwarePaths)
BpFiles == ToSet(BlueprintPaths)
Idle == [at |-> "idle", todo |-> <<>>, list |-> <<>>, body |-> Absent, old |-> Absent,
         alone |-> FALSE]
NoConfig == [kind |-> "none"]

-----------------------------------------------------------------------------
(* Versions and the image that belongs to one.                              *)

\* parseVersion: the numbers of the text, Empty when there are none.
ParseVersion(v) == Parsed[v]

Segment(v, i) == IF i <= Len(v) THEN v[i] ELSE 0

\* compareVersions: missing segments count as 0.
CompareVersions(a, b) ==
  LET differ == {i \in 1 .. Max({Len(a), Len(b)}) : Segment(a, i) # Segment(b, i)}
      i == Min(differ)
  IN IF differ = {} THEN 0 ELSE IF Segment(a, i) < Segment(b, i) THEN -1 ELSE 1

\* A constraint is a set of tokens <<operator, version>> that must all hold.
MatchesVersionConstraint(v, expr) ==
  \A token \in expr :
    LET cmp == CompareVersions(v, token[2]) IN
      CASE token[1] = ">"  -> cmp > 0
        [] token[1] = ">=" -> cmp >= 0
        [] token[1] = "<"  -> cmp < 0
        [] token[1] = "<=" -> cmp <= 0
        [] token[1] = "==" -> cmp = 0
        [] OTHER -> FALSE

\* ImageForVersion: the first matching mapping wins, then the last default,
\* whose value may be a literal image; Unset stands for the error.
ImageForVersion(sw, v) ==
  LET hits == {i \in DOMAIN sw.mappings : /\ sw.mappings[i].key # "default"
                                          /\ MatchesVersionConstraint(ParseVersion(v), sw.mappings[i].expr)}
      fallback == {i \in DOMAIN sw.mappings : sw.mappings[i].key = "default"}
      ImageOf(key) == IF key \in DOMAIN sw.images THEN sw.images[key] ELSE Unset
      default == sw.mappings[Max(fallback)].image
  IN IF sw.mappings = Empty
     THEN IF Cardinality(DOMAIN sw.images) = 1 THEN ImageOf(CHOOSE k \in DOMAIN sw.images : TRUE)
          ELSE Unset
     ELSE IF ParseVersion(v) = Empty THEN Unset
     ELSE IF hits # {} THEN ImageOf(sw.mappings[Min(hits)].key)
     ELSE IF fallback # {} THEN IF ImageOf(default) = Unset THEN default ELSE ImageOf(default)
     ELSE Unset

-----------------------------------------------------------------------------
(* Loading software, with the update from a URL.                            *)

ById(list) == [id \in {list[i].id : i \in DOMAIN list} |->
                 list[CHOOSE i \in DOMAIN list : list[i].id = id]]

\* What yaml.Unmarshal makes of a file: a file without the software section
\* is not validated at all and yields the zero Software.
ZeroSoftware == [kind |-> "ok", id |-> "", images |-> Empty, mappings |-> Empty,
                 limits |-> Empty, configs |-> Empty, update |-> FALSE,
                 script |-> FALSE, signal |-> "plain"]
Unmarshal(def) == IF def.kind = "blank" THEN ZeroSoftware ELSE def
Parses(def) == def.kind \in {"ok", "blank"}

\* A second software with the same id is skipped.
Appended(list, sw) ==
  IF \E i \in DOMAIN list : list[i].id = sw.id THEN list ELSE Append(list, sw)

\* LoadAllSoftware of a disk nobody updates.
LoadAll(disk, paths) ==
  FoldLeft(LAMBDA list, p : IF Parses(disk[p]) THEN Appended(list, Unmarshal(disk[p])) ELSE list,
           <<>>, paths)

OthersBusy(r) == \E o \in Reloaders \ {r} : reload[o].at # "idle"

BeginReload(r, at, paths) ==
  /\ reload[r].at = "idle" /\ reloads < MaxReloads
  /\ reloads' = reloads + 1
  /\ reload' = [o \in Reloaders |->
                  IF o = r THEN [Idle EXCEPT !.at = at, !.todo = paths, !.alone = ~OthersBusy(r)]
                  ELSE [reload[o] EXCEPT !.alone = FALSE]]
  /\ UNCHANGED <<swDisk, bpDisk, tmp, sws, bps, cfg, servers, edits, current, blanked>>

PostReloadSoftware(r) == BeginReload(r, "software", SoftwarePaths)
PostReloadBlueprints(r) == BeginReload(r, "blueprints", BlueprintPaths)

\* The file the walk is at is done: sw is what it yielded, Absent if nothing.
Loaded(r, sw) ==
  reload' = [reload EXCEPT ![r].at = "software", ![r].todo = Tail(@),
                           ![r].list = IF sw.kind = "ok" THEN Appended(@, sw) ELSE @,
                           ![r].body = Absent, ![r].old = Absent]

\* What the URL answers: a body, or an error (a bad URL, no connection, another
\* status than 200).
HttpGetBody == Remotes

\* load and the first half of maybeRefreshSoftwareFromURL: the file is read
\* and parsed, the remote body fetched, compared and parsed.
LoadSoftware(r) ==
  /\ reload[r].at = "software" /\ reload[r].todo # <<>>
  /\ LET def == swDisk[Head(reload[r].todo)] IN
       \/ /\ ~Parses(def)
          /\ Loaded(r, Absent)
       \/ /\ Parses(def) /\ ~Unmarshal(def).update
          /\ Loaded(r, Unmarshal(def))
       \/ /\ Parses(def) /\ Unmarshal(def).update
          /\ \E body \in HttpGetBody :
               IF Parses(body) /\ body # def
               THEN reload' = [reload EXCEPT ![r].at = "tmp", ![r].old = def, ![r].body = body]
               ELSE Loaded(r, Unmarshal(def))
  /\ UNCHANGED <<swDisk, bpDisk, tmp, sws, bps, cfg, servers, reloads, edits, current, blanked>>

WriteTmp(r) ==
  /\ reload[r].at = "tmp"
  /\ tmp' = [tmp EXCEPT ![Head(reload[r].todo)] = reload[r].body]
  /\ reload' = [reload EXCEPT ![r].at = "rename"]
  /\ UNCHANGED <<swDisk, bpDisk, sws, bps, cfg, servers, reloads, edits, current, blanked>>

\* The rename moves whatever is in the tmp file, which another reload may have
\* written, or moved away; then the file's old content stays registered.
RenameTmp(r) ==
  /\ reload[r].at = "rename"
  /\ LET path == Head(reload[r].todo) IN
       \/ /\ tmp[path] # Absent
          /\ swDisk' = [swDisk EXCEPT ![path] = tmp[path]]
          /\ tmp' = [tmp EXCEPT ![path] = Absent]
          /\ blanked' = (blanked \/ tmp[path].kind = "blank")
          /\ reload' = [reload EXCEPT ![r].at = "reread"]
       \/ /\ tmp[path] = Absent
          /\ Loaded(r, Unmarshal(reload[r].old))
          /\ UNCHANGED <<swDisk, tmp, blanked>>
  /\ UNCHANGED <<bpDisk, sws, bps, cfg, servers, reloads, edits, current>>

\* A plausible bug: the updated file is not parsed again.
RereadNot(r) ==
  /\ reload[r].at = "reread"
  /\ Loaded(r, Unmarshal(reload[r].old))
  /\ UNCHANGED <<swDisk, bpDisk, tmp, sws, bps, cfg, servers, reloads, edits, current, blanked>>

\* The file is read again and unmarshalled over the Software parsed before: a
\* definition without an install script keeps the old script, one without a
\* software section or one that fails leaves the Software as it was.
Reread(r) ==
  /\ reload[r].at = "reread"
  /\ LET def == swDisk[Head(reload[r].todo)]
         old == Unmarshal(reload[r].old)
     IN Loaded(r, IF def.kind = "ok" THEN [def EXCEPT !.script = @ \/ old.script] ELSE old)
  /\ UNCHANGED <<swDisk, bpDisk, tmp, sws, bps, cfg, servers, reloads, edits, current, blanked>>

\* Registry.ReplaceAll.
ReplaceSoftware(r) ==
  /\ reload[r].at = "software" /\ reload[r].todo = <<>>
  /\ sws' = ById(reload[r].list)
  /\ current' = reload[r].alone
  /\ reload' = [reload EXCEPT ![r] = Idle]
  /\ UNCHANGED <<swDisk, bpDisk, tmp, bps, cfg, servers, reloads, edits, blanked>>

-----------------------------------------------------------------------------
(* Loading blueprints.                                                      *)

\* MergeLimits: set fields of the override replace those of the base.
MergeLimits(base, override) == override @@ base

\* ValidateLimits: defaults for what is not set, then the range of io_weight.
ValidLimits(limits) ==
  LET io == (limits @@ Defaults).io IN io = 0 \/ io \in 10 .. 1000

\* A plausible bug: only the fields the blueprint sets itself get a default.
ValidateBlueprintUnmerged(def) ==
  LET sw == sws[def.software]
      limits == MergeLimits(sw.limits, def.limits)
      image == IF def.image = Unset THEN ImageForVersion(sw, def.version)
               ELSE IF def.image \in DOMAIN sw.images THEN sw.images[def.image] ELSE Unset
  IN IF def.kind # "ok" \/ def.software \notin DOMAIN sws THEN Absent
     ELSE IF image = Unset \/ ~ValidLimits(limits) THEN Absent
     ELSE [def EXCEPT !.image = image, !.limits = def.limits,
                      !.path = IF @ = Empty THEN <<def.software, def.version>> ELSE @]
          @@ [from |-> def, base |-> sw]

\* Server.Validate against the software registry as it is now; Absent when a
\* check fails.  The image is always set afterwards, the limits are complete.
ValidateBlueprint(def) ==
  LET sw == sws[def.software]
      limits == MergeLimits(sw.limits, def.limits)
      image == IF def.image = Unset THEN ImageForVersion(sw, def.version)
               ELSE IF def.image \in DOMAIN sw.images THEN sw.images[def.image] ELSE Unset
  IN IF def.kind # "ok" \/ def.software \notin DOMAIN sws THEN Absent
     ELSE IF image = Unset \/ ~ValidLimits(limits) THEN Absent
     ELSE [def EXCEPT !.image = image, !.limits = limits @@ Defaults,
                      !.path = IF @ = Empty THEN <<def.software, def.version>> ELSE @]
          @@ [from |-> def, base |-> sw]

LoadBlueprint(r) ==
  /\ reload[r].at = "blueprints" /\ reload[r].todo # <<>>
  /\ LET bp == ValidateBlueprint(bpDisk[Head(reload[r].todo)]) IN
       reload' = [reload EXCEPT ![r].todo = Tail(@),
                                ![r].list = IF bp.kind = "ok" THEN Appended(@, bp) ELSE @]
  /\ UNCHANGED <<swDisk, bpDisk, tmp, sws, bps, cfg, servers, reloads, edits, current, blanked>>

ReplaceBlueprints(r) ==
  /\ reload[r].at = "blueprints" /\ reload[r].todo = <<>>
  /\ bps' = ById(reload[r].list)
  /\ reload' = [reload EXCEPT ![r] = Idle]
  /\ UNCHANGED <<swDisk, bpDisk, tmp, sws, cfg, servers, reloads, edits, current, blanked>>

\* The operator edits, adds or removes a file.
EditSoftware(path, def) ==
  /\ edits < MaxEdits /\ swDisk[path] # def
  /\ swDisk' = [swDisk EXCEPT ![path] = def]
  /\ edits' = edits + 1
  /\ current' = FALSE
  /\ reload' = [r \in Reloaders |-> [reload[r] EXCEPT !.alone = FALSE]]
  /\ UNCHANGED <<bpDisk, tmp, sws, bps, cfg, servers, reloads, blanked>>

EditBlueprint(path, def) ==
  /\ edits < MaxEdits /\ bpDisk[path] # def
  /\ bpDisk' = [bpDisk EXCEPT ![path] = def]
  /\ edits' = edits + 1
  /\ UNCHANGED <<swDisk, tmp, sws, bps, reload, cfg, servers, reloads, current, blanked>>

-----------------------------------------------------------------------------
(* BuildServerConfiguration.  A find map is a function from its top-level   *)
(* keys, each a sequence of the parts between the dots, to what is below: a  *)
(* function from the path under the key, <<>> for a plain value, to values.  *)

\* addLayer: a later layer replaces whole top-level keys and the parser.
AddLayer(merged, configs) ==
  [f \in DOMAIN merged \cup DOMAIN configs |->
     IF f \notin DOMAIN configs THEN merged[f]
     ELSE IF f \notin DOMAIN merged THEN configs[f]
     ELSE [parser |-> configs[f].parser, find |-> configs[f].find @@ merged[f].find]]

\* flattenMap: every path with every value some spelling of it gives; when a
\* path is spelled twice the one the map iteration reaches last stays.
FlattenMap(find) ==
  UNION {{<<top \o rest, find[top][rest]>> : rest \in DOMAIN find[top]} : top \in DOMAIN find}

\* convertConfigFile: one replacement per path, in the order of a map iteration.
ConvertConfigFile(find) ==
  LET flat == FlattenMap(find)
      paths == {pair[1] : pair \in flat}
      chosen == {val \in [paths -> {pair[2] : pair \in flat}] : \A p \in paths : <<p, val[p]>> \in flat}
  IN UNION {{[i \in DOMAIN order |-> [match |-> order[i], with |-> val[order[i]]]]
               : order \in SetToSeqs(paths)} : val \in chosen}

GetConfigFiles(sw, bp, ov) == AddLayer(AddLayer(sw.configs, bp.configs), ov.configs)

Overridden(set, base) == IF set = Unset THEN base ELSE set

\* MergeState: the override's variables win.
MergeState(base, env) == env @@ base

\* The done line travels as the raw text of its matcher, which is empty for a
\* regular expression; one that does not compile fails the whole build.
DoneLine(signal) == IF signal = "regex" THEN "" ELSE signal

\* The configuration without its files: the registered blueprint, the software
\* of the effective id, the overrides.
Build(bp, sw, ov, port) ==
  [kind |-> "ok",
   image |-> Overridden(ov.image, bp.image),
   limits |-> MergeLimits(bp.limits, ov.limits),
   save |-> Overridden(ov.save, bp.save),
   env |-> MergeState(bp.env, ov.env),
   volumes |-> bp.volumes, copy |-> bp.copy,
   folder |-> IF ov.software # Unset \/ ov.version # Unset
              THEN <<Overridden(ov.software, bp.software), Overridden(ov.version, bp.version)>>
              ELSE bp.path,
   software |-> sw.id, version |-> Overridden(ov.version, bp.version),
   script |-> sw.script, done |-> DoneLine(sw.signal), port |-> port,
   from |-> bp.from, base |-> bp.base, runs |-> sw, over |-> ov]

\* A plausible bug: the overrides are merged into the blueprint's own limits.
CreateServerAliased(id, ov, port) ==
  /\ cfg = NoConfig /\ servers < MaxServers
  /\ id \in DOMAIN bps
  /\ LET bp == bps[id]
         eff == Overridden(ov.software, bp.software)
     IN /\ eff \in DOMAIN sws /\ sws[eff].signal # "badregex"
        /\ cfg' = Build(bp, sws[eff], ov, port) @@ [files |-> Empty]
        /\ bps' = [bps EXCEPT ![id].limits = MergeLimits(bp.limits, ov.limits)]
  /\ servers' = servers + 1
  /\ UNCHANGED <<swDisk, bpDisk, tmp, sws, reload, reloads, edits, current, blanked>>

\* CreateServer with the blueprint the request named; the replacements of every
\* file come in some order.
CreateServer(id, ov, port) ==
  /\ cfg = NoConfig /\ servers < MaxServers
  /\ id \in DOMAIN bps
  /\ LET bp == bps[id]
         eff == Overridden(ov.software, bp.software)
         files == GetConfigFiles(sws[eff], bp, ov)
     IN /\ eff \in DOMAIN sws /\ sws[eff].signal # "badregex"
        /\ \E replace \in [DOMAIN files -> UNION {ConvertConfigFile(files[f].find) : f \in DOMAIN files}] :
             /\ \A f \in DOMAIN files : replace[f] \in ConvertConfigFile(files[f].find)
             /\ cfg' = Build(bp, sws[eff], ov, port)
                       @@ [files |-> [f \in DOMAIN files |->
                             [parser |-> files[f].parser, replace |-> replace[f]]]]
  /\ servers' = servers + 1
  /\ UNCHANGED <<swDisk, bpDisk, tmp, sws, bps, reload, reloads, edits, current, blanked>>

-----------------------------------------------------------------------------
\* The process has loaded its definitions when it begins to answer; the URL
\* answered nothing new then.
ProtocubeInit ==
  /\ swDisk \in StartSoftware
  /\ bpDisk \in StartBlueprints
  /\ tmp = [p \in SwFiles |-> Absent]
  /\ sws = ById(LoadAll(swDisk, SoftwarePaths))
  /\ bps = ById(FoldLeft(LAMBDA list, p : LET bp == ValidateBlueprint(bpDisk[p])
                                          IN IF bp.kind = "ok" THEN Appended(list, bp) ELSE list,
                         <<>>, BlueprintPaths))
  /\ reload = [r \in Reloaders |-> Idle]
  /\ cfg = NoConfig
  /\ servers = 0 /\ reloads = 0 /\ edits = 0
  /\ current = TRUE /\ blanked = FALSE

Reload(r) ==
  \/ PostReloadSoftware(r) \/ LoadSoftware(r) \/ WriteTmp(r) \/ RenameTmp(r)
  \/ Reread(r) \/ ReplaceSoftware(r)
  \/ PostReloadBlueprints(r) \/ LoadBlueprint(r) \/ ReplaceBlueprints(r)

Edit ==
  \/ \E p \in SwFiles, def \in SoftwareDefs : EditSoftware(p, def)
  \/ \E p \in BpFiles, def \in BlueprintDefs : EditBlueprint(p, def)
=============================================================================
