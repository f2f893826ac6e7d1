------------------------------ MODULE Configure ------------------------------
(***************************************************************************)
(* A server's configuration from protocube's definitions to the files of    *)
(* its volume: ServerConfig composed with the daemon's InitServer and         *)
(* UpdateConfigurationFiles (daemon/server/manager.go, config_parser.go,      *)
(* daemon/parser), which patches every file again at every start, after the   *)
(* blueprint's copies (daemon/server/copy.go) and on a pool of workers, with   *)
(* a flock on each file.  The server process rewrites its    *)
(* files while it runs; the daemon may crash at any point of an update.       *)
(* ConfigFile says what a parser does to a document.                          *)
(***************************************************************************)
EXTENDS ServerConfig, ConfigFile

CONSTANTS
  PathOf,      \* the file each configured name leads to, Outside for none
  Outside,     \* what unsafePath refuses
  Docs,        \* per file, a sequence of the documents a server may leave there
  Folders,     \* server folders that exist on the node
  Sources,     \* volume sources that exist below the volumes root
  Content,     \* the documents of the files a copy may read
  Upper,       \* the name a variable gets in the environment
  Reserved,    \* the names the daemon sets itself
  Workers,     \* size of the worker pool
  MaxStarts, MaxWrites, MaxFaults, MaxCrashes

Names == DOMAIN PathOf
Files == DOMAIN Docs
NoName == "nobody"
MaxDocs == Max({Len(Docs[p]) : p \in Files})

ASSUME DaemonAssumption ==
  /\ \A n \in Names : PathOf[n] \in Files \cup {Outside}
  /\ Outside \notin Files /\ NoName \notin Names
  /\ Workers \in Nat \ {0}

VARIABLES
  got,       \* the configuration the daemon holds, with what it mounts
  phase,     \* stopped, mounting, copying, updating or running
  mnt,       \* how often the overlay of each target is mounted
  mounting,  \* the overlays this start has yet to mount
  copy,      \* the copy entries still to do, and how far the first file is
  disk,      \* per file, whether it is there and its document
  job,       \* the update of each configured file: its step and new document
  lock,      \* who holds the flock of a file
  own,       \* what the server, its installation or a copy last left there
  torn,      \* a crash hit between truncating the file and writing it
  fresh,     \* the server has not rewritten the file since the last update
  starts, writes, faults, crashes

dvars == <<got, phase, mnt, mounting, copy, disk, job, lock, own, torn, fresh, starts, writes, faults, crashes>>
vars == <<pvars, dvars>>

NoJob == [at |-> "none", doc |-> <<>>]
NoCopy == [at |-> "open", todo |-> <<>>]

-----------------------------------------------------------------------------
(* InitServer.                                                              *)

Cow(c) == {v \in c.volumes : v.mode = "cow"}
Bound(c) == {v \in c.volumes : v.mode \in {"ro", "rw"}}
AtRoot(v) == v.target \in {"/", ".", ""}

\* Without an install script the folder must be there; a volume needs a mode
\* the daemon knows and a source below the volumes root.
Refused(c) ==
  \/ ~c.script /\ c.folder \notin Folders
  \/ \E v \in c.volumes : v \notin Cow(c) \cup Bound(c) \/ v.source \notin Sources

\* Bind mounts, the lower directories of the server's own overlay, and one
\* more overlay for every other target of a copy-on-write volume.
Mounts(c) ==
  [binds |-> Bound(c),
   lower |-> {v \in Cow(c) : AtRoot(v)},
   overlays |-> [t \in {v.target : v \in {v \in Cow(c) : ~AtRoot(v)}} |->
                   {v \in Cow(c) : v.target = t}]]

\* The order in which the overlays are mounted: the server's own first, the
\* others as a map iteration gives them.
MountOrders(mounts) == {<<"/">> \o order : order \in SetToSeqs(DOMAIN mounts.overlays)}

\* GetEnvironmentVariables: names in upper case, none of the daemon's own; of
\* several spellings of a name the first that the map iteration reaches.
GetEnvironmentVariables(env) ==
  LET names == {Upper[key] : key \in DOMAIN env} \ Reserved IN
    {[name \in names |-> env[from[name]]] :
       from \in {f \in [names -> DOMAIN env] : \A name \in names : Upper[f[name]] = name}}

\* A server the daemon refuses is removed from protocube again.
InitServer ==
  /\ cfg # NoConfig /\ got = NoConfig
  /\ \/ /\ Refused(cfg)
        /\ cfg' = NoConfig
        /\ UNCHANGED <<got, mnt, disk, own, torn, fresh>>
     \/ /\ ~Refused(cfg)
        /\ \E order \in MountOrders(Mounts(cfg)), vars0 \in GetEnvironmentVariables(cfg.env) :
             got' = cfg @@ [mounts |-> Mounts(cfg), order |-> order, vars |-> vars0]
        /\ mnt' = [t \in ToSet(got'.order) |-> 0]
        /\ \E pick \in [Files \cap {PathOf[n] : n \in DOMAIN cfg.files} -> 0 .. MaxDocs] :
             /\ \A p \in DOMAIN pick : pick[p] <= Len(Docs[p])
             /\ disk' = [p \in Files |->
                           IF p \in DOMAIN pick /\ pick[p] > 0
                           THEN [there |-> TRUE, doc |-> Docs[p][pick[p]]]
                           ELSE [there |-> FALSE, doc |-> <<>>]]
        /\ own' = [p \in Files |-> disk'[p].doc]
        /\ torn' = [p \in Files |-> FALSE]
        /\ fresh' = [p \in Files |-> FALSE]
        /\ UNCHANGED cfg
  /\ UNCHANGED <<swDisk, bpDisk, tmp, sws, bps, reload, servers, reloads, edits, current, blanked>>
  /\ UNCHANGED <<phase, mounting, copy, job, lock, starts, writes, faults, crashes>>

-----------------------------------------------------------------------------
(* A start: Sync, then OverlayVolume.Mount.  Without an answer of protocube,  *)
(* or when a mount fails, the start ends and what is mounted stays mounted.   *)

Targets == ToSet(got.order)

\* Sync takes the process configuration, with the files, from protocube.
Sync ==
  /\ got # NoConfig /\ phase = "stopped" /\ starts < MaxStarts
  /\ starts' = starts + 1
  /\ \/ /\ got' = [got EXCEPT !.files = cfg.files, !.version = cfg.version]
        /\ phase' = "mounting"
        /\ mounting' = got.order
        /\ UNCHANGED faults
     \/ /\ faults < MaxFaults
        /\ faults' = faults + 1
        /\ UNCHANGED <<got, phase, mounting>>
  /\ UNCHANGED <<pvars, mnt, copy, disk, job, lock, own, torn, fresh, writes, crashes>>

\* Overlay.Unmount takes the topmost mount away; one that is not mounted is none
\* of its errors.
Unmounted(n) == IF n = 0 THEN 0 ELSE n - 1

\* Overlay.Mount unmounts first.
MountOverlay ==
  /\ phase = "mounting" /\ mounting # <<>>
  /\ mnt' = [mnt EXCEPT ![Head(mounting)] = Unmounted(@) + 1]
  /\ mounting' = Tail(mounting)
  /\ UNCHANGED <<pvars, got, phase, copy, disk, job, lock, own, torn, fresh, starts, writes, faults, crashes>>

\* The directories are missing, or the unmount, the mount or SetPermissions fails.
MountFails ==
  /\ phase = "mounting" /\ faults < MaxFaults
  /\ faults' = faults + 1
  /\ phase' = "stopped"
  /\ mounting' = <<>>
  /\ \/ UNCHANGED mnt
     \/ mounting # <<>> /\ mnt' = [mnt EXCEPT ![Head(mounting)] = Unmounted(@)]
  /\ UNCHANGED <<pvars, got, copy, disk, job, lock, own, torn, fresh, starts, writes, crashes>>

-----------------------------------------------------------------------------
(* PerformCopy, at every start.  An entry is the sequence of the files that   *)
(* its walk reaches, one for a plain file.                                    *)

\* onBeforeStart, the volume mounted and its permissions set: the copies come
\* first.
BeginCopy ==
  /\ phase = "mounting" /\ mounting = <<>>
  /\ phase' = "copying"
  /\ copy' = [NoCopy EXCEPT !.todo = got.copy]
  /\ UNCHANGED <<pvars, got, mnt, mounting, disk, job, lock, own, torn, fresh, starts, writes, faults, crashes>>

\* The first entry is over: its last file was copied, its target is refused
\* before anything was done, or an error, which only gets a log line, ended it.
NextEntry ==
  /\ phase = "copying" /\ copy.todo # <<>>
  /\ LET entry == Head(copy.todo)
         refused == entry = <<>> \/ PathOf[entry[1].target] = Outside
                      \/ entry[1].source \notin DOMAIN Content
     IN /\ refused \/ faults < MaxFaults
        /\ faults' = IF refused THEN faults ELSE faults + 1
  /\ copy' = [NoCopy EXCEPT !.todo = Tail(copy.todo)]
  /\ UNCHANGED <<pvars, got, phase, mnt, mounting, disk, job, lock, own, torn, fresh, starts, writes, crashes>>

\* copyFile opens the target with O_TRUNC and then copies the content.
CopyFile ==
  /\ phase = "copying" /\ copy.todo # <<>> /\ Head(copy.todo) # <<>>
  /\ LET file == Head(Head(copy.todo))
         p == PathOf[file.target]
     IN /\ p # Outside /\ file.source \in DOMAIN Content
        /\ \/ /\ copy.at = "open"
              /\ disk' = [disk EXCEPT ![p] = [there |-> TRUE, doc |-> <<>>]]
              /\ copy' = [copy EXCEPT !.at = "content"]
           \/ /\ copy.at = "content"
              /\ disk' = [disk EXCEPT ![p].doc = Content[file.source]]
              /\ copy' = [at |-> "open", todo |-> <<Tail(Head(copy.todo))>> \o Tail(copy.todo)]
        /\ own' = [own EXCEPT ![p] = disk'[p].doc]
        /\ torn' = [torn EXCEPT ![p] = FALSE]
  /\ UNCHANGED <<pvars, got, phase, mnt, mounting, job, lock, fresh, starts, writes, faults, crashes>>

-----------------------------------------------------------------------------
(* UpdateConfigurationFiles.                                                *)

ServerData == ("{{server.build.default.port}}" :> got.port) @@ ConfigData

Begun(n) == job[n].at \in {"lock", "read", "truncate", "write"}
Goto(n, step) == job' = [job EXCEPT ![n].at = step]
Unlocked(n) == lock' = [lock EXCEPT ![PathOf[n]] = NoName]

\* Every configured file is submitted to the pool, once the copies are done.
Update ==
  /\ phase = "copying" /\ copy.todo = <<>>
  /\ phase' = "updating"
  /\ job' = [n \in Names |-> IF n \in DOMAIN got.files THEN [NoJob EXCEPT !.at = "submitted"] ELSE NoJob]
  /\ fresh' = [p \in Files |-> TRUE]
  /\ UNCHANGED <<pvars, got, mnt, mounting, copy, disk, lock, own, torn, starts, writes, faults, crashes>>

\* A worker opens the file, with O_CREATE; one it cannot open is skipped.
Touch(n) ==
  /\ job[n].at = "submitted"
  /\ Cardinality({o \in Names : Begun(o)}) < Workers
  /\ \/ /\ PathOf[n] # Outside
        /\ disk' = [disk EXCEPT ![PathOf[n]].there = TRUE]
        /\ Goto(n, "lock")
        /\ UNCHANGED faults
     \/ /\ PathOf[n] = Outside \/ faults < MaxFaults
        /\ faults' = IF PathOf[n] = Outside THEN faults ELSE faults + 1
        /\ Goto(n, "failed")
        /\ UNCHANGED disk
  /\ UNCHANGED <<pvars, got, phase, mnt, mounting, copy, lock, own, torn, fresh, starts, writes, crashes>>

\* A plausible bug: the flock is not exclusive.
LockShared(n) ==
  /\ job[n].at = "lock"
  /\ lock' = [lock EXCEPT ![PathOf[n]] = n]
  /\ Goto(n, "read")
  /\ UNCHANGED <<pvars, got, phase, mnt, mounting, copy, disk, own, torn, fresh, starts, writes, faults, crashes>>

Lock(n) ==
  /\ job[n].at = "lock" /\ lock[PathOf[n]] = NoName
  /\ lock' = [lock EXCEPT ![PathOf[n]] = n]
  /\ Goto(n, "read")
  /\ UNCHANGED <<pvars, got, phase, mnt, mounting, copy, disk, own, torn, fresh, starts, writes, faults, crashes>>

\* Parse reads the file and computes the new document; on an error it
\* unlocks and nothing was written.
Read(n) ==
  /\ job[n].at = "read"
  /\ LET file == got.files[n]
         result == Parse(file.parser, disk[PathOf[n]].doc, file.replace, ServerData)
     IN IF result.ok
        THEN /\ job' = [job EXCEPT ![n] = [at |-> "truncate", doc |-> result.doc]]
             /\ UNCHANGED lock
        ELSE /\ Goto(n, "failed")
             /\ Unlocked(n)
  /\ UNCHANGED <<pvars, got, phase, mnt, mounting, copy, disk, own, torn, fresh, starts, writes, faults, crashes>>

Truncate(n) ==
  /\ job[n].at = "truncate"
  /\ disk' = [disk EXCEPT ![PathOf[n]].doc = <<>>]
  /\ Goto(n, "write")
  /\ UNCHANGED <<pvars, got, phase, mnt, mounting, copy, lock, own, torn, fresh, starts, writes, faults, crashes>>

Write(n) ==
  /\ job[n].at = "write"
  /\ disk' = [disk EXCEPT ![PathOf[n]].doc = job[n].doc]
  /\ job' = [job EXCEPT ![n] = [at |-> "done", doc |-> <<>>]]
  /\ Unlocked(n)
  /\ UNCHANGED <<pvars, got, phase, mnt, mounting, copy, own, torn, fresh, starts, writes, faults, crashes>>

\* pool.StopWait: the server boots whatever the updates returned.
StopWait ==
  /\ phase = "updating"
  /\ \A n \in Names : job[n].at \in {"none", "done", "failed"}
  /\ phase' = "running"
  /\ UNCHANGED <<pvars, got, mnt, mounting, copy, disk, job, lock, own, torn, fresh, starts, writes, faults, crashes>>

\* The server process saves its own configuration.
ServerWrites(p, doc) ==
  /\ phase = "running" /\ writes < MaxWrites
  /\ p \in {PathOf[n] : n \in DOMAIN got.files}
  /\ disk' = [disk EXCEPT ![p] = [there |-> TRUE, doc |-> doc]]
  /\ own' = [own EXCEPT ![p] = doc]
  /\ torn' = [torn EXCEPT ![p] = FALSE]
  /\ fresh' = [fresh EXCEPT ![p] = FALSE]
  /\ writes' = writes + 1
  /\ UNCHANGED <<pvars, got, phase, mnt, mounting, copy, job, lock, starts, faults, crashes>>

\* The server process ends and the listener unmounts the volume; an overlay that
\* cannot be unmounted stays.
ServerStops ==
  /\ phase = "running"
  /\ phase' = "stopped"
  /\ job' = [n \in Names |-> NoJob]
  /\ \/ /\ mnt' = [t \in Targets |-> Unmounted(mnt[t])]
        /\ UNCHANGED faults
     \/ /\ faults < MaxFaults
        /\ faults' = faults + 1
        /\ \E stays \in Targets : mnt' = [t \in Targets |-> IF t = stays THEN mnt[t] ELSE Unmounted(mnt[t])]
  /\ UNCHANGED <<pvars, got, mounting, copy, disk, lock, own, torn, fresh, starts, writes, crashes>>

\* The daemon dies: its locks go with its descriptors, the mounts stay.
Crash ==
  /\ phase \in {"mounting", "copying", "updating"} /\ crashes < MaxCrashes
  /\ crashes' = crashes + 1
  /\ phase' = "stopped"
  /\ torn' = [p \in Files |-> torn[p] \/ \E n \in Names : PathOf[n] = p /\ job[n].at = "write"]
  /\ job' = [n \in Names |-> NoJob]
  /\ lock' = [p \in Files |-> NoName]
  /\ copy' = NoCopy /\ mounting' = <<>>
  /\ UNCHANGED <<pvars, got, mnt, disk, own, fresh, starts, writes, faults>>

\* The server is deleted on both sides and its volume with it.
Delete ==
  /\ got # NoConfig /\ phase = "stopped"
  /\ got' = NoConfig
  /\ cfg' = NoConfig
  /\ mnt' = Empty
  /\ disk' = [p \in Files |-> [there |-> FALSE, doc |-> <<>>]]
  /\ own' = [p \in Files |-> <<>>]
  /\ UNCHANGED <<swDisk, bpDisk, tmp, sws, bps, reload, servers, reloads, edits, current, blanked>>
  /\ UNCHANGED <<phase, mounting, copy, job, lock, torn, fresh, starts, writes, faults, crashes>>

-----------------------------------------------------------------------------
Init ==
  /\ ProtocubeInit
  /\ got = NoConfig
  /\ phase = "stopped" /\ copy = NoCopy
  /\ mnt = Empty /\ mounting = <<>>
  /\ disk = [p \in Files |-> [there |-> FALSE, doc |-> <<>>]]
  /\ job = [n \in Names |-> NoJob]
  /\ lock = [p \in Files |-> NoName]
  /\ own = [p \in Files |-> <<>>]
  /\ torn = [p \in Files |-> FALSE]
  /\ fresh = [p \in Files |-> FALSE]
  /\ starts = 0 /\ writes = 0 /\ faults = 0 /\ crashes = 0

Protocube ==
  \/ \E r \in Reloaders : Reload(r)
  \/ Edit
  \/ \E ov \in IF reloads + edits = 0 THEN OverrideSets ELSE LateOverrides :
       \E id \in DOMAIN bps, port \in Ports : CreateServer(id, ov, port)

Daemon ==
  \/ InitServer \/ Sync \/ MountOverlay \/ MountFails
  \/ BeginCopy \/ NextEntry \/ CopyFile \/ Update \/ StopWait
  \/ ServerStops \/ Crash \/ Delete
  \/ \E n \in Names : Touch(n) \/ Lock(n) \/ Read(n) \/ Truncate(n) \/ Write(n)
  \/ \E p \in Files : \E i \in DOMAIN Docs[p] : ServerWrites(p, Docs[p][i])

Next ==
  \/ Protocube /\ UNCHANGED dvars
  \/ Daemon

Spec == Init /\ [][Next]_vars

-----------------------------------------------------------------------------
(* Properties.                                                              *)

LimitFields == DOMAIN Defaults

\* Type invariant: registered blueprints have an image and complete limits, so
\* that BuildServerConfiguration never needs its fall-back image; a flock belongs
\* to a job of its file, and no more jobs are under way than there are workers.
TypeOK ==
  /\ \A id \in DOMAIN sws : sws[id].id = id
  /\ \A id \in DOMAIN bps : /\ bps[id].id = id /\ bps[id].image # Unset
                            /\ DOMAIN bps[id].limits = LimitFields
                            /\ ValidLimits(bps[id].limits)
  /\ phase \in {"stopped", "mounting", "copying", "updating", "running"}
  /\ \A p \in Files : lock[p] = NoName \/ (PathOf[lock[p]] = p /\ Begun(lock[p]))
  /\ \A p \in Files : ~disk[p].there => disk[p].doc = <<>>
  /\ Cardinality({n \in Names : Begun(n)}) <= Workers

\* The software registry is what the files say: after a reload that ran
\* alone, with no edit since it began, every software is registered as its file defines
\* it, updates from the URL included.  Two known exceptions: an install script
\* the update removed stays until the next reload, and a body without a
\* software section replaces the file but not the registered software.
RegistryCurrent ==
  (current /\ ~blanked /\ \A r \in Reloaders : reload[r].at \in {"idle", "blueprints"}) =>
    LET loaded == ById(LoadAll(swDisk, SoftwarePaths)) IN
      /\ DOMAIN sws = DOMAIN loaded
      /\ \A id \in DOMAIN sws :
           \E script \in {loaded[id].script, TRUE} : sws[id] = [loaded[id] EXCEPT !.script = script]

\* The value the last of the layers that has the key gives it.
LastSet(layers, key) ==
  LET having == {i \in DOMAIN layers : key \in DOMAIN layers[i]} IN layers[Max(having)][key]

\* The order of versions as numbers.
Weight(v) == Segment(v, 1) * 10000 + Segment(v, 2) * 100 + Segment(v, 3)

InRange(v, expr) ==
  \A t \in expr : LET w == Weight(v)  u == Weight(t[2]) IN
    (w < u /\ t[1] \in {"<", "<="}) \/ (w = u /\ t[1] \in {"<=", ">=", "=="})
      \/ (w > u /\ t[1] \in {">", ">="})

\* The images the mappings can mean for a version, stated as ranges of numbers.
MeantImage(sw, v) ==
  LET Hit(i) == sw.mappings[i].key # "default" /\ InRange(Parsed[v], sw.mappings[i].expr)
      first == {i \in DOMAIN sw.mappings : Hit(i) /\ \A j \in 1 .. i - 1 : ~Hit(j)}
      named == IF first # {} THEN {sw.mappings[i].key : i \in first}
               ELSE {sw.mappings[i].image : i \in DOMAIN sw.mappings}
  IN {sw.images[key] : key \in DOMAIN sw.images \cap IF sw.mappings = Empty THEN DOMAIN sw.images ELSE named}

Layers(file) ==
  SelectSeq(<<cfg.runs.configs, cfg.from.configs, cfg.over.configs>>, LAMBDA l : file \in DOMAIN l)

\* The top-level keys under which some layer spells a path of the file.
Spellings(file, path) ==
  UNION {{top \in DOMAIN layer[file].find : \E rest \in DOMAIN layer[file].find[top] : top \o rest = path}
           : layer \in ToSet(Layers(file))}

\* Layering: what protocube sends is, field by field, what the last of
\* software, blueprint and overrides says, whatever was built from the same
\* blueprint before and whatever was reloaded meanwhile; the image without an
\* override is the one the blueprint chose when it was loaded.  A path that
\* layers spell differently (a.b and a: b) may get either value.  The server
\* runs with every volume bound or in an overlay, every overlay mounted once,
\* whatever failed starts and crashes left mounted.
Layered ==
  cfg # NoConfig =>
    /\ cfg.image = IF cfg.over.image # Unset THEN cfg.over.image
                   ELSE IF cfg.from.image # Unset THEN cfg.base.images[cfg.from.image]
                   ELSE CHOOSE image \in MeantImage(cfg.base, cfg.from.version) : TRUE
    /\ \A key \in LimitFields :
         cfg.limits[key] = LastSet(<<Defaults, cfg.base.limits, cfg.from.limits, cfg.over.limits>>, key)
    /\ \A key \in DOMAIN cfg.from.env \cup DOMAIN cfg.over.env :
         cfg.env[key] = LastSet(<<cfg.from.env, cfg.over.env>>, key)
    /\ \A file \in DOMAIN cfg.files :
         /\ cfg.files[file].parser = Last(Layers(file))[file].parser
         /\ \A r \in ToSet(cfg.files[file].replace) :
              LET top == CHOOSE top \in Spellings(file, r.match) : TRUE
                  finds == [i \in DOMAIN Layers(file) |-> Layers(file)[i][file].find]
              IN Spellings(file, r.match) = {top} =>
                   \E rest \in DOMAIN LastSet(finds, top) :
                     top \o rest = r.match /\ LastSet(finds, top)[rest] = r.with
    /\ got # NoConfig =>
         \A v \in cfg.volumes : (v \in got.mounts.binds) # (v \in got.mounts.lower
            \/ (v.target \in DOMAIN got.mounts.overlays /\ v \in got.mounts.overlays[v.target]))
    /\ got # NoConfig =>
         \A key \in DOMAIN got.env :
           Upper[key] \in Reserved \/ \E same \in DOMAIN got.env :
             Upper[same] = Upper[key] /\ got.vars[Upper[key]] = got.env[same]
    /\ phase = "running" => \A t \in Targets : mnt[t] = 1

-----------------------------------------------------------------------------

\* The replacements that concern a file, under any name that leads to it.
Concerning(p) ==
  UNION {ToSet(got.files[n].replace) : n \in {n \in DOMAIN got.files : PathOf[n] = p}}

Agree(a, b) == a = b \/ "*" \in {a, b} \/ a \in Index \/ b \in Index

\* Two paths of a tree where one may be the other's ancestor.
Related(a, b) == \A i \in 1 .. Min({Len(a), Len(b)}) : Agree(a[i], b[i])

\* A replacement with this match may change the leaf at q.
Touches(parser, match, q) ==
  CASE parser \in {"json", "yaml", "yml"} -> Related(match, q)
    [] parser = "xml" -> Len(match) = Len(q) /\ Related(match, q)
    [] parser = "ini" -> IniPath(match) = IniPath(q)
    [] parser = "file" -> IsPrefix(match, q)
    [] OTHER -> match = q

Leaves(parser, doc) ==
  CASE parser = "properties" -> ToSet(doc)
    [] parser = "file" -> {<<line, line>> : line \in ToSet(Scanned(doc))}
    [] OTHER -> {<<q, doc[q]>> : q \in DOMAIN doc}

QuotedIn(p, doc) ==
  \/ \E r \in Concerning(p) : r.with \in Quoted
  \/ \E leaf \in Leaves("properties", doc) : leaf[2] \in Quoted \cup {Mangled}

\* The document has the value at every place the match means; a null child
\* or element stays null.
Holds(parser, doc, match, v) ==
  LET wild == {i \in DOMAIN match : match[i] \in Index \cup {"*"}}
      i == Min(wild)
      rest == SubSeq(match, i + 1, Len(match))
  IN CASE parser \in {"json", "yaml", "yml"} /\ wild = {} ->
            match \in DOMAIN doc /\ doc[match] = v
       [] parser \in {"json", "yaml", "yml"} /\ wild # {} ->
            \A q \in DOMAIN doc :
              LET child == SubSeq(q, 1, i) IN
                (Len(q) >= i /\ (match[i] = "*" \/ q[i] = match[i])
                 /\ SubSeq(q, 1, i - 1) = SubSeq(match, 1, i - 1)) =>
                  \/ q = child /\ doc[q] = Null
                  \/ child \o rest \in DOMAIN doc /\ doc[child \o rest] = v
       [] parser = "xml" ->
            XmlRoot(doc) = match[1] =>
              /\ "*" \notin ToSet(match) => match \in DOMAIN doc
              /\ \A q \in DOMAIN doc : XmlMatches(match, q) => doc[q] = Text(v)
       [] parser = "ini" -> IniPath(match) \in DOMAIN doc /\ doc[IniPath(match)] = Text(v)
       [] parser = "properties" -> <<match, Text(v)>> \in ToSet(doc)
       [] OTHER -> \A line \in ToSet(doc) : IsPrefix(match, line) =>
                     \E n \in DOMAIN got.files : \E r \in ToSet(got.files[n].replace) :
                       line[1] = Text(r.with)

\* "To ensure that they always use the specified values": when the server
\* boots, every file whose update returned no error has the value of every
\* replacement no other one contests, placeholders resolved, whichever order
\* protocube sent them in, whoever patched the same file under another name,
\* and whatever an earlier start or crash left.  Values with a quotation mark
\* at the end spoil a properties file; a match that ends in an index is not
\* claimed, its value goes to the key "".
Patched ==
  phase = "running" =>
    \A n \in DOMAIN got.files :
      LET p == PathOf[n]  file == got.files[n] IN
        (job[n].at = "done" /\ fresh[p]) =>
          \A r \in ToSet(file.replace) :
            \/ \E o \in Concerning(p) \ {r} : Touches(file.parser, o.match, r.match)
                                              \/ Touches(file.parser, r.match, o.match)
            \/ Last(r.match) \in Index \cup {"*"}
            \/ file.parser = "properties" /\ QuotedIn(p, own[p])
            \/ Holds(file.parser, disk[p].doc, r.match, Resolve(r.with, ServerData))

\* Nothing else is lost: while nobody is writing the file, everything the
\* server, or a copy at its start, last put there and no replacement is about is still there,
\* over any number of starts, failed updates and crashes, unless a crash hit
\* between truncating the file and writing it.  Lines after one that is too
\* long for the scanner, and properties next to a value that ends with a
\* quotation mark, are not claimed.
Kept ==
  got # NoConfig =>
    \A n \in DOMAIN got.files :
      LET p == PathOf[n]  parser == got.files[n].parser IN
        (p # Outside /\ lock[p] = NoName /\ ~torn[p]) =>
          \A leaf \in Leaves(parser, own[p]) :
            \/ \E r \in Concerning(p) : Touches(parser, r.match, leaf[1])
            \/ parser = "properties" /\ QuotedIn(p, own[p])
            \/ leaf \in Leaves(parser, disk[p].doc)
=============================================================================
