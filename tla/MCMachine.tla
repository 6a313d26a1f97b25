----------------------------- MODULE MCMachine -----------------------------
(* The app's search for its daemon (AppLink), the audio of a job (Recorder, *)
(* TurnDetector, CaptureWatch, Resampler) and the moving of an installation *)
(* (BundleExport, BundleImport, HostCheck), on small instances.  As in      *)
(* MCControl these parts share neither variables nor messages, and each is  *)
(* explored by itself.                                                      *)
EXTENDS AppLink, Recorder, TurnDetector, CaptureWatch, Resampler,
        BundleExport, BundleImport, HostCheck, TLC

CONSTANTS d1, d2

VARIABLE part

\* AppLink: our daemon beside one that is of no use, for each way to be of none;
\* a phone that may not start the service by itself; a search that NSD refuses;
\* and saved addresses, with a mishap more, as the timer is lost only then.
LAN(n1, n2) == d1 :> n1 @@ d2 :> n2
Discovering(n1, exempt, flaky) ==
  [nature |-> LAN(n1, "ours"), server |-> None, search |-> n1 # "ours",
   exempt |-> exempt, flaky |-> flaky, mishaps |-> 1]
Saved(n2) ==
  [nature |-> LAN("foreign", n2), server |-> d2, search |-> TRUE,
   exempt |-> TRUE, flaky |-> TRUE, mishaps |-> 2]
MCScenes ==
  {Discovering(n, TRUE, TRUE) : n \in {"malformed", "ours"}}
    \cup {Discovering(n, TRUE, FALSE) : n \in {"foreign", "dead"}}
    \cup {Discovering("undialable", FALSE, FALSE)}
    \cup {Saved(n) : n \in Natures}

\* TurnDetector: waits for the end and for the start of a turn, in ms; with a
\* hop of 2 ms some are no whole number of hops.  Without a recording session,
\* one of each.
MCWait ==
  [mode : {"turn"}, session : {TRUE}, silence : {0, 3, 4}, timeout : {0, 5, 8},
   onset : {0, 3}, linger : {0}]
    \cup [mode : {"start"}, session : {TRUE}, silence : {0}, timeout : {1, 5, 6},
          onset : {0, 3}, linger : {0, 2, 5}]
    \cup [mode : {"turn", "start"}, session : {FALSE}, silence : {3},
          timeout : {5}, onset : {3}, linger : {2}]

\* Resampler: equal, whole and broken ratios, in both directions.
MCPairs == {[src |-> r[1], dst |-> r[2]] :
              r \in {<<1, 1>>, <<3, 1>>, <<3, 2>>, <<5, 2>>, <<1, 3>>, <<2, 3>>}}

\* BundleExport: two scripts, one of them below, a sample and a recording in
\* the folder; outside it two samples of one name and a job.
Job == <<"job.yaml">>
SubJob == <<"sub", "job.yaml">>
Sample == <<"samples", "out.wav">>
Recording == <<"recordings", "r.wav">>
MCFolder == {Job, SubJob, Sample, Recording, ConfigYaml}
Out1 == <<"home", "out.wav">>
Out2 == <<"tmp", "out.wav">>
OutJob == <<"home", "job.yaml">>
MCAbroad == {Out1, Out2, OutJob}
MCBase == Out1 :> "out.wav" @@ Out2 :> "out.wav" @@ OutJob :> "job.yaml"
MCYaml == {Job, SubJob, ConfigYaml, OutJob}

JobRefs == {NoRef, NotAJob, Ref("rel", Sample), Ref("abs", Sample),
            Ref("abs", Out1), Ref("rel", Recording), Ref("abs", Nowhere)}
SubRefs == {Ref("abs", Sample), Ref("abs", Out1), Ref("rel", Out2)}
OutRefs == {NoRef, NotAJob, Ref("abs", Out1), Ref("rel", Out2),
            Ref("abs", Sample)}
MCSetup ==
  {[exist |-> MCFolder \cup MCAbroad,
    refs |-> [f \in MCFolder \cup MCAbroad |->
                CASE f = Job -> j [] f = SubJob -> s [] f = OutJob -> o
                  [] OTHER -> NotAJob],
    auto |-> 1 :> x @@ 2 :> y,
    recordDir |-> IF x = Job THEN <<"samples">> ELSE <<>>] :
     j \in JobRefs, s \in SubRefs, o \in OutRefs,
     x \in {Job, OutJob}, y \in {ConfigYaml, OutJob, Nowhere, Recording}}

\* BundleImport: zips with noise and a config.yaml at two depths, one with an
\* unquoted number and one with the placeholder for a key, and one without a
\* config.yaml.
E(dir, name, what) == [dir |-> dir, name |-> name, what |-> what]
MCArchive ==
  {<<E(<<"a">>, "config.yaml", ConfigFile("k1", "text")),
     E(<<"__MACOSX">>, "config.yaml", OtherFile),
     E(<<"a">>, "job.yaml", JobFile)>>,
   <<E(<<"b", "old">>, "config.yaml", ConfigFile("k1", "text")),
     E(<<"b">>, "config.yaml", ConfigFile("2", "number")),
     E(<<"b">>, "job2.yaml", JobFile)>>,
   <<E(<<>>, "job.yaml", JobFile),
     E(<<>>, "config.yaml", ConfigFile(Placeholder, "text"))>>,
   <<E(<<>>, "job2.yaml", JobFile)>>}

\* HostCheck: macOS and Linux, with a card in one piece or split in two.
T(dir, base) == [dir |-> dir, base |-> base]
Card2(n, in, to) == [name |-> n, input |-> in, output |-> to]
MCHosts ==
  [linux : BOOLEAN, path : {<<"brew", "usr">>}, pm : BOOLEAN,
   devices : {{Card2("x", TRUE, TRUE)},
              {Card2("c", TRUE, FALSE), Card2("c", FALSE, TRUE)}}]
Cmd(t, driver, dev) ==
  [pinned |-> TRUE, tool |-> t, driver |-> driver, dev |-> dev]
MCImported ==
  [capture_device : {"c"}, playback_device : {Unset, "d"},
   capture_cmd : {NoCmd, Cmd(T("opt", "sox"), "coreaudio", "c"),
                  Cmd(T("brew", "sox"), "coreaudio", "c")},
   playback_cmd : {NoCmd, Cmd(T("", "sox"), "coreaudio", "d"),
                   Cmd(T("opt", "arecord"), "-", "d")}]
MCTools == {<<>>, T("brew", "sox") :> 1,
            T("usr", "sox") :> 1 @@ T("usr", "sox_ng") :> 3,
            T("usr", "arecord") :> 0}
-----------------------------------------------------------------------------
audioVars == <<recorderVars, turnVars, watchVars, resamplerVars>>
setUpVars == <<exportVars, importVars, hostVars>>
mcVars == <<part, appLinkVars, audioVars, setUpVars>>

MachineInit ==
  /\ part \in {"app", "recorder", "turn", "watch", "resampler", "export",
               "import", "host"}
  /\ AppLinkInit /\ (part # "app" => scene = Saved("ours"))
  /\ RecorderInit /\ TurnInit /\ WatchInit /\ ResamplerInit
  /\ ExportInit /\ ImportInit /\ HostInit

MachineNext ==
  /\ UNCHANGED part
  /\ \/ /\ part = "app" /\ AppLinkNext
        /\ UNCHANGED <<audioVars, setUpVars>>
     \/ /\ part = "recorder" /\ RecorderNext
        /\ UNCHANGED <<appLinkVars, turnVars, watchVars, resamplerVars,
                       setUpVars>>
     \/ /\ part = "turn" /\ TurnNext
        /\ UNCHANGED <<appLinkVars, recorderVars, watchVars, resamplerVars,
                       setUpVars>>
     \/ /\ part = "watch" /\ WatchNext
        /\ UNCHANGED <<appLinkVars, recorderVars, turnVars, resamplerVars,
                       setUpVars>>
     \/ /\ part = "resampler" /\ ResamplerNext
        /\ UNCHANGED <<appLinkVars, recorderVars, turnVars, watchVars, setUpVars>>
     \/ /\ part = "export" /\ ExportNext
        /\ UNCHANGED <<appLinkVars, audioVars, importVars, hostVars>>
     \/ /\ part = "import" /\ ImportNext
        /\ UNCHANGED <<appLinkVars, audioVars, exportVars, hostVars>>
     \/ /\ part = "host" /\ HostNext
        /\ UNCHANGED <<appLinkVars, audioVars, exportVars, importVars>>

\* Each part's own fairness, asked of the part that runs.
MachineFairness ==
  /\ WF_appLinkVars(part = "app" /\ Search)
  /\ WF_appLinkVars(part = "app" /\ Sockets)
  /\ WF_appLinkVars(part = "app" /\ \E d \in Daemon : StaleEnds(d))
  /\ WF_appLinkVars(part = "app" /\ NetworkBack)
  /\ WF_appLinkVars(part = "app" /\ TimerFires)
  /\ WF_appLinkVars(part = "app" /\ scene.exempt /\ Tick)
  /\ SF_appLinkVars(part = "app" /\ WindowEnds)
  /\ \A d \in Daemon : SF_appLinkVars(part = "app" /\ Expire(d))
  /\ WF_recorderVars(part = "recorder" /\ CaptureStep)
  /\ WF_recorderVars(part = "recorder" /\ Join)
  /\ WF_turnVars(part = "turn" /\ LoopStep)

MachineSpec == MachineInit /\ [][MachineNext]_mcVars /\ MachineFairness
-----------------------------------------------------------------------------
\* Every part's state stays in its declared sets.
MachineTypeOK == AppLinkTypeOK /\ RecorderTypeOK /\ TurnTypeOK /\ WatchTypeOK

\* The app is connected to its daemon in the end (DaemonCandidates, dropped).
AppFindsItsDaemon == part = "app" => FindsItsDaemon

\* Waiting for a turn and finishing a recording always return.
AudioReturns == WaitReturns /\ FinishReturns
=============================================================================
