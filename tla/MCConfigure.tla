---------------------------- MODULE MCConfigure ----------------------------
EXTENDS Configure

\* A find map of plain values and one of a nested map.
Plain(path, v) == path :> (<<>> :> v)
Port == "{{server.build.default.port}}"
Ip == "{{config.docker.interface}}"

NoOverride == [image |-> Unset, limits |-> Empty, save |-> Unset, env |-> Empty,
               software |-> Unset, version |-> Unset, configs |-> Empty]
Patch(file, parser, find) ==
  [NoOverride EXCEPT !.configs = file :> [parser |-> parser, find |-> find]]

Mapping(key, expr, image) == [key |-> key, expr |-> expr, image |-> image]

Paper == [kind |-> "ok", id |-> "paper", update |-> TRUE, script |-> TRUE, signal |-> "plain",
          images |-> [java_8 |-> "img8", java_21 |-> "img21"],
          mappings |-> <<Mapping("java_8", {<<"<=", <<1, 16, 5>>>>}, ""),
                         Mapping("java_21", {<<">=", <<1, 17>>>>, <<"<", <<2>>>>}, ""),
                         Mapping("java_8", {<<">=", <<1, 20>>>>}, ""),
                         Mapping("default", {}, "java_8")>>,
          limits |-> [mem |-> 8192],
          configs |-> ("server.properties" :> [parser |-> "properties",
                         find |-> Plain(<<"port">>, Port) @@ Plain(<<"level", "name">>, "w1")])]
\* What the URL has: no script any more, another value, no update section.
PaperNext == [Paper EXCEPT !.script = FALSE, !.update = FALSE, !.limits = [io |-> 100],
              !.configs = ("server.properties" :> [parser |-> "properties",
                             find |-> Plain(<<"port">>, "p0")])]
Velocity == [kind |-> "ok", id |-> "velocity", update |-> FALSE, script |-> FALSE, signal |-> "regex",
             images |-> [proxy |-> "imgp"], mappings |-> Empty, limits |-> Empty, configs |-> Empty]
Blank == [kind |-> "blank"]
Bad == [kind |-> "bad"]

Survival == [kind |-> "ok", id |-> "survival", software |-> "paper", version |-> "1.20-pre2",
             image |-> Unset, path |-> Empty, limits |-> [mem |-> 2048], save |-> "yes",
             env |-> [EULA |-> "true", tz |-> "x"],
             copy |-> <<<<[source |-> "seed", target |-> "config.json"],
                          [source |-> "gone", target |-> "a.txt"]>>,
                        <<[source |-> "seed", target |-> "../up"]>>>>,
             volumes |-> {[target |-> "/world", source |-> "w", mode |-> "cow"],
                          [target |-> "/", source |-> "w", mode |-> "cow"],
                          [target |-> "/maps", source |-> "w", mode |-> "ro"]},
             configs |-> ("server.properties" :> [parser |-> "properties",
                            find |-> Plain(<<"level", "name">>, "w2")])]
Lobby == [Survival EXCEPT !.id = "lobby", !.software = "velocity", !.image = "proxy",
                          !.path = <<"lobby">>, !.env = [eula |-> "true"],
                          !.volumes = {[target |-> t, source |-> "w", mode |-> "cow"] : t \in {"/a", "/b"}},
                          !.copy = <<>>, !.configs = Empty]
NoMode == [Lobby EXCEPT !.volumes = {[target |-> "/", source |-> "w", mode |-> ""]}]
TooHeavy == [Survival EXCEPT !.limits = [io |-> 5]]

MCSoftwarePaths == <<"a.yml", "b.yml">>
MCBlueprintPaths == <<"l.yml", "s.yml">>
MCSoftwareDefs == {Paper, Bad}
MCBlueprintDefs == {NoMode, TooHeavy}
MCStartSoftware == {("a.yml" :> Paper @@ "b.yml" :> Velocity)}
MCStartBlueprints == {("l.yml" :> Lobby @@ "s.yml" :> Survival)}
MCRemotes == {PaperNext, Blank, Unreachable}
MCParsed == ("1.20-pre2" :> <<1, 20>>) @@ ("1.16.5" :> <<1, 16, 5>>)
MCDefaults == [mem |-> 4096, io |-> 500]

MCOverrideSets ==
  {[NoOverride EXCEPT !.limits = [mem |-> 1], !.env = [EULA |-> "false"], !.save = "no",
                      !.version = "1.16.5"],
   Patch("./server.properties", "properties", Plain(<<"level", "name">>, "w3") @@ Plain(<<"motd">>, "m")),
   Patch("config.json", "json", Plain(<<"w", "*", "x">>, Port) @@ Plain(<<"b", "c">>, Null)),
   Patch("config.json", "json", Plain(<<"l", "[0]", "x">>, "v1") @@ (<<"b">> :> (<<"c">> :> "v2"))
                                @@ Plain(<<"b", "c">>, "v3")),
   Patch("paper.yml", "yaml", Plain(<<"w", "*", "x">>, "v1") @@ Plain(<<"w", "e", "x">>, "v2")),
   Patch("paper.yml", "toml", Plain(<<"w">>, "v1")),
   Patch("cfg.ini", "ini", Plain(<<"a">>, "v1") @@ Plain(<<"s", "a", "b">>, List)),
   Patch("cfg.xml", "xml", Plain(<<"r", "e">>, Ip) @@ Plain(<<"r", "*">>, "v2") @@ Plain(<<"t", "e">>, "v3")),
   Patch("a.txt", "file", Plain(<<"a">>, "b") @@ Plain(<<"b">>, "c")),
   Patch("../up", "file", Plain(<<"a">>, "b"))}

MCPathOf == [n \in {"server.properties", "./server.properties", "config.json", "paper.yml",
                    "cfg.ini", "cfg.xml", "a.txt", "../up"} |->
               CASE n = "./server.properties" -> "server.properties"
                 [] n = "../up" -> "outside"
                 [] OTHER -> n]

MCDocs ==
  [p \in {"server.properties", "config.json", "paper.yml", "cfg.ini", "cfg.xml", "a.txt"} |->
     CASE p = "server.properties" ->
            <<<<<<<<"port">>, "p9">>, <<<<"seed">>, "s">>>>, <<<<<<"motd">>, "q\"">>, <<<<"seed">>, "s">>>>>>
       [] p = "config.json" ->
            <<(<<"w", "d", "x">> :> "v0") @@ (<<"w", "e">> :> Null) @@ (<<"k">> :> "v0"),
             (<<"w", "d">> :> "v0") @@ (<<"b">> :> Null),
             (<<"l", "[0]", "y">> :> "v0") @@ (<<"l", "[1]">> :> "v0") @@ (<<"b", "d">> :> "v0")>>
       [] p = "paper.yml" ->
            <<(<<"w", "d", "y">> :> "v0") @@ (<<"w", "e", "x", "z">> :> "v0")>>
       [] p = "cfg.ini" -> <<(<<"", "a">> :> "v0") @@ (<<"s", "a">> :> "v0") @@ (<<"s", "a", "b">> :> "v0")>>
       [] p = "cfg.xml" -> <<(<<"r">> :> "") @@ (<<"r", "e">> :> "v0") @@ (<<"r", "e", "k">> :> "v0")>>
       [] OTHER -> <<<<<<"a", "x">>, <<"k">>, <<"b">>>>, <<<<"k">>, <<"long">>, <<"a">>>>>>]
MCContent == [seed |-> (<<"w", "d", "x">> :> "v7") @@ (<<"k">> :> "v7")]
MCUpper == [EULA |-> "EULA", eula |-> "EULA", tz |-> "TZ"]
MCFolders == {<<"lobby">>}
MCQuoted == {"q\""}
MCConfigData == Ip :> "172.18.0.1"

MCLateOverrides == {ov \in MCOverrideSets : ov.configs = Empty}

\* The updates of a volume's files read nothing of protocube but the
\* configuration fixed at creation, so they are explored for the first server
\* and the definitions protocube started with, and servers are created between
\* reloads.
Focus ==
  /\ (reloads + edits > 0 \/ servers > 1) => UNCHANGED starts
  /\ cfg' # NoConfig => \A r \in Reloaders : reload'[r].at = "idle"

FocusedSpec ==
  Init /\ [][\/ starts = 0 /\ Protocube /\ UNCHANGED dvars
            \/ Daemon]_vars
=============================================================================
