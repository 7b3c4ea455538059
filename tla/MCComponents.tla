---------------------------- MODULE MCComponents ----------------------------
(***************************************************************************)
(* The components beside the replay path, one at a time: Init picks the one *)
(* that runs, the others stay as they begin.  They share no state.          *)
(***************************************************************************)
EXTENDS SpecialPackets, LogPage, PortStats, PacketDump, Capture, LatencyProbes,
        LatencySampler, RxBuffers, RangeField, LineEditor, CliHistory

\* a line longer than the first buffer, and one with a space at an end
TwoLines == {<<"a", "_", "a">>, <<"_">>}

VARIABLE which     \* the component that runs

MCInit ==
  /\ which \in {"special", "log", "stats", "dump", "capture", "probes", "sampler", "rx",
                "range", "editor", "history"}
  /\ SpecialInit /\ LogInit /\ StatsInit /\ DumpInit /\ CaptureInit
  /\ ProbeInit /\ SamplerInit /\ RxInit /\ RangeInit /\ EditorInit /\ HistoryInit

MCNext ==
  /\ UNCHANGED which
  /\ IF which = "special" THEN SpecialNext ELSE UNCHANGED specialVars
  /\ IF which = "log"     THEN LogNext     ELSE UNCHANGED logVars
  /\ IF which = "stats"   THEN StatsNext   ELSE UNCHANGED statsVars
  /\ IF which = "dump"    THEN DumpNext    ELSE UNCHANGED packetDumpVars
  /\ IF which = "capture" THEN CaptureNext ELSE UNCHANGED captureVars
  /\ IF which = "probes"  THEN ProbeNext   ELSE UNCHANGED probeVars
  /\ IF which = "sampler" THEN SamplerNext ELSE UNCHANGED samplerVars
  /\ IF which = "rx"      THEN RxNext      ELSE UNCHANGED mbufVars
  /\ IF which = "range"   THEN RangeNext   ELSE UNCHANGED rangeVars
  /\ IF which = "editor"  THEN EditorNext  ELSE UNCHANGED editorVars
  /\ IF which = "history" THEN HistoryNext ELSE UNCHANGED historyVars

MCVars == <<which, specialVars, logVars, statsVars, packetDumpVars, captureVars, probeVars,
            samplerVars, mbufVars, rangeVars, editorVars, historyVars>>

MCSpec == MCInit /\ [][MCNext]_MCVars

(* Every variable of every component keeps its type.                        *)
ComponentsTypeOK ==
  /\ which = "special" => SpecialTypeOK
  /\ which = "log" => LogTypeOK
  /\ which = "stats" => StatsTypeOK
  /\ which = "dump" => DumpTypeOK
  /\ which = "capture" => CaptureTypeOK
  /\ which = "probes" => ProbeTypeOK
  /\ which = "sampler" => SamplerTypeOK
  /\ which = "rx" => RxTypeOK
  /\ which = "range" => RangeTypeOK
  /\ which = "editor" => EditorTypeOK
  /\ which = "history" => HistoryTypeOK
=============================================================================
