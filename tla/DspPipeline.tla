---------------------------- MODULE DspPipeline ----------------------------
(***************************************************************************)
(* The DSP of the audio HAL: the plugins read from the configuration       *)
(* (cras_dsp_ini.c), the context of a PCM device (cras_dsp.c), the         *)
(* pipeline built for it (cras_dsp_pipeline.c) and the builtin modules it  *)
(* runs (cras_dsp_mod_builtin.c).                                          *)
(*                                                                         *)
(* Plugins, ports and instances are numbered from 1, buffers from 0 as in  *)
(* the code.  A sample is a term: <<"in", frame, channel>> as it was       *)
(* written, and the module's name applied to samples once it was           *)
(* processed.                                                              *)
(***************************************************************************)
EXTENDS CrasExpr, FiniteSets, FiniteSetsExt, SequencesExt

CONSTANTS
  IniFiles,     \* the configurations: sequences of sections
  DspNames,     \* the dsp_name of the PCM profiles
  BUFFER_SIZE,  \* DSP_BUFFER_SIZE, in frames
  BlockFrames   \* the frames of one write

Channels == 2   \* the frames out_write counts are 16-bit stereo

VARIABLES
  ini_file,     \* the content of the file
  ini,          \* [plugins, flows], or NoIni
  dsp_context,  \* [purpose, env], or NoContext
  dsp_at,       \* the step of the HAL's thread
  calls,        \* topological_sort's stack: [plugin, port] per active call
  visited,      \* the plugins topological_sort has entered
  instances,    \* the pipeline's instances
  busy,         \* the buffers in use while they are assigned
  buffers,      \* the pipeline's buffers: frame -> sample
  running,      \* the next instance to assign buffers to or to run
  target,       \* samples of the block already passed
  remaining,    \* frames still to process
  block         \* the interleaved samples

dspvars == <<ini_file, ini, dsp_context, dsp_at, calls, visited, instances, busy,
             buffers, running, target, remaining, block>>

NoIni == [plugins |-> <<>>, flows |-> <<>>]
NoContext == [purpose |-> "none", env |-> <<>>]
NoFlow == 0
Block == [i \in 1..(BlockFrames * Channels) |->
            <<"in", (i - 1) \div Channels, (i - 1) % Channels>>]

DspInit ==
  /\ ini_file \in IniFiles
  /\ ini = NoIni
  /\ dsp_context = NoContext
  /\ dsp_at = "off"
  /\ calls = <<>> /\ visited = {}
  /\ instances = <<>>
  /\ busy = {} /\ buffers = <<>>
  /\ running = 1
  /\ target = 0 /\ remaining = 0
  /\ block = Block

-----------------------------------------------------------------------------
(* cras_dsp_ini.c.  A section holds library, label and purpose, "" for a   *)
(* missing key, the text of its disable expression and its ports: [dir,    *)
(* type, name], where name is "" for a number.                             *)

\* lookup_or_add_flow over all ports: a flow is numbered where its name is
\* first met.
FlowNames(file) ==
  FoldSeq(LAMBDA section, names :
            FoldSeq(LAMBDA port, seen :
                      IF port.name = "" \/ Contains(seen, port.name) THEN seen
                      ELSE Append(seen, port.name),
                    names, section.ports),
          <<>>, file)

parse_ports(section, names) ==
  [j \in 1..Len(section.ports) |->
     LET port == section.ports[j] IN
     [dir |-> port.dir, type |-> port.type,
      flow_id |-> IF port.name = "" THEN NoFlow
                  ELSE CHOOSE f \in 1..Len(names) : names[f] = port.name]]

parse_plugin_section(section, names) ==
  [library |-> section.library, label |-> section.label, purpose |-> section.purpose,
   disable_expr |-> parse_one_expr(section.disable).expr,
   ports |-> parse_ports(section, names)]

\* The ports of all sections or plugins.
Places(sections) ==
  UNION {{<<p, j>> : j \in 1..Len(sections[p].ports)} : p \in 1..Len(sections)}

\* fill_flow_info: the last output port that names a flow is its origin.
fill_flow_info(plugins, flow) ==
  LET outs == {x \in Places(plugins) :
                 /\ plugins[x[1]].ports[x[2]].dir = "output"
                 /\ plugins[x[1]].ports[x[2]].flow_id = flow}
  IN IF outs = {} THEN [from |-> 0, from_port |-> 0]
     ELSE LET last == CHOOSE x \in outs : \A y \in outs :
                        y[1] < x[1] \/ (y[1] = x[1] /\ y[2] <= x[2])
          IN [from |-> last[1], from_port |-> last[2]]

cras_dsp_ini_create(file) ==
  IF \E i \in 1..Len(file) : file[i].library = "" \/ file[i].label = "" THEN NoIni
  ELSE LET names == FlowNames(file)
           plugins == [i \in 1..Len(file) |-> parse_plugin_section(file[i], names)]
       IN [plugins |-> plugins,
           flows |-> [f \in 1..Len(names) |-> fill_flow_info(plugins, f)]]

cras_dsp_init ==
  /\ dsp_at = "off"
  /\ ini' = cras_dsp_ini_create(ini_file)
  /\ dsp_at' = "idle"
  /\ UNCHANGED <<ini_file, dsp_context, calls, visited, instances, busy, buffers,
                 running, target, remaining, block>>

-----------------------------------------------------------------------------
(* The context of a PCM device, out_open_pcm_devices.                      *)

cras_dsp_context_new(purpose, name) ==
  /\ dsp_at = "idle"
  /\ dsp_context' = [purpose |-> purpose,
                     env |-> env_set_variable(NewEnv, "dsp_name", String(name))]
  /\ dsp_at' = "create"
  /\ UNCHANGED <<ini_file, ini, calls, visited, instances, busy, buffers, running,
                 target, remaining, block>>

Plugin(p) == ini.plugins[p]

is_disabled(p) ==
  Plugin(p).disable_expr # <<>> /\ eval_boolean(Plugin(p).disable_expr[1], dsp_context.env)

\* The plugins find_enabled_builtin_plugin accepts; two of them are refused.
Enabled(label) ==
  {p \in 1..Len(ini.plugins) :
     /\ Plugin(p).library = "builtin"
     /\ Plugin(p).label = label
     /\ Plugin(p).purpose = dsp_context.purpose
     /\ ~is_disabled(p)}
Endpoints == Cardinality(Enabled("source")) = 1 /\ Cardinality(Enabled("sink")) = 1
Endpoint(label) == CHOOSE p \in Enabled(label) : TRUE

\* No pipeline: the context keeps a null one and the samples pass unchanged.
NoPipeline == /\ dsp_at' = "apply"
              /\ instances' = <<>>
              /\ calls' = <<>>
              /\ visited' = {}

cras_dsp_pipeline_create ==
  /\ dsp_at = "create"
  /\ IF Endpoints
     THEN /\ calls' = <<[plugin |-> Endpoint("sink"), port |-> 1]>>
          /\ visited' = {Endpoint("sink")}
          /\ dsp_at' = "sort"
          /\ UNCHANGED instances
     ELSE NoPipeline
  /\ UNCHANGED <<ini_file, ini, dsp_context, busy, buffers, running, target, remaining, block>>

-----------------------------------------------------------------------------
(* topological_sort, one call or port a step.                              *)

HasInstance(p) == \E i \in 1..Len(instances) : instances[i].plugin = p
InstanceOf(p) == CHOOSE i \in 1..Len(instances) : instances[i].plugin = p

PortsOf(p, dir, type) ==
  {j \in 1..Len(Plugin(p).ports) :
     Plugin(p).ports[j].dir = dir /\ Plugin(p).ports[j].type = type}

\* Mutant: every output of a disabled plugin stands for its first input.
MutantThrough(p, j) == Min(PortsOf(p, "input", Plugin(p).ports[j].type))

\* The input port of a disabled plugin that stands for its output port j, 0
\* if there is none.
Through(p, j) ==
  LET type == Plugin(p).ports[j].type
      k == Cardinality({i \in PortsOf(p, "output", type) : i < j})
      inputs == PortsOf(p, "input", type)
      at == {i \in inputs : Cardinality({h \in inputs : h < i}) = k}
  IN IF at = {} THEN 0 ELSE Min(at)

RECURSIVE find_origin_port(_, _)

\* <<plugin, port>> whose data input port j of p receives, <<0, 0>> for none.
find_origin_port(p, j) ==
  LET flow == ini.flows[Plugin(p).ports[j].flow_id] IN
  IF flow.from = 0 THEN <<0, 0>>
  ELSE IF HasInstance(flow.from) THEN <<flow.from, flow.from_port>>
  ELSE LET i == Through(flow.from, flow.from_port) IN
       IF i = 0 \/ Plugin(flow.from).ports[i].flow_id = NoFlow THEN <<0, 0>>
       ELSE find_origin_port(flow.from, i)

\* Whether a flow reaches port j, and the port it comes from.
Connected(p, j) == Plugin(p).ports[j].dir = "input" /\ Plugin(p).ports[j].flow_id # NoFlow

\* The audio ports of a new instance of p, in the order of the plugin's ports.
\* peer is <<instance, output>> of an input.
NewPorts(p, dir) ==
  LET ports == SetToSortSeq(PortsOf(p, dir, "audio"), <) IN
  [n \in 1..Len(ports) |->
     [original_index |-> ports[n], buf_index |-> 0,
      peer |-> IF ~Connected(p, ports[n]) THEN <<0, 0>>
               ELSE LET origin == find_origin_port(p, ports[n])
                        from == InstanceOf(origin[1])
                    IN <<from, CHOOSE o \in 1..Len(instances[from].out) :
                                 instances[from].out[o].original_index = origin[2]>>]]

Origins(p) == \A j \in 1..Len(Plugin(p).ports) :
                Connected(p, j) => find_origin_port(p, j) # <<0, 0>>

Leave == calls' = Front(calls)

\* A plugin whose inputs are complete: disabled ones get no instance.
Construct(p) ==
  IF is_disabled(p)
  THEN Leave /\ UNCHANGED <<instances, visited, dsp_at>>
  ELSE IF ~Origins(p) THEN NoPipeline
  ELSE /\ instances' = Append(instances, [plugin |-> p, in |-> NewPorts(p, "input"),
                                          out |-> NewPorts(p, "output"), total_delay |-> 0])
       /\ Leave
       /\ UNCHANGED <<visited, dsp_at>>

topological_sort ==
  /\ dsp_at = "sort" /\ calls # <<>>
  /\ LET call == Last(calls)
         ports == Plugin(call.plugin).ports IN
     IF call.port > Len(ports) THEN Construct(call.plugin)
     ELSE LET flow_id == ports[call.port].flow_id
              from == IF flow_id = NoFlow THEN call.plugin ELSE ini.flows[flow_id].from IN
          IF from = 0 THEN NoPipeline
          ELSE /\ calls' = LET next == [calls EXCEPT ![Len(calls)].port = @ + 1] IN
                           IF from \in visited THEN next
                           ELSE Append(next, [plugin |-> from, port |-> 1])
               /\ visited' = visited \cup {from}
               /\ UNCHANGED <<instances, dsp_at>>
  /\ UNCHANGED <<ini_file, ini, dsp_context, busy, buffers, running, target, remaining, block>>

\* The end of cras_dsp_pipeline_create and load_module.
source_instance == InstanceOf(Endpoint("source"))
sink_instance == InstanceOf(Endpoint("sink"))

PipelineCreated ==
  /\ dsp_at = "sort" /\ calls = <<>>
  /\ IF /\ HasInstance(Endpoint("source")) /\ HasInstance(Endpoint("sink"))
        /\ Len(instances[sink_instance].in) <= Len(instances[source_instance].out)
        /\ \A i \in 1..Len(instances) : Plugin(instances[i].plugin).library = "builtin"
     THEN /\ dsp_at' = "assign"
          /\ running' = 1
          /\ UNCHANGED <<instances, calls, visited>>
     ELSE NoPipeline /\ UNCHANGED running
  /\ UNCHANGED <<ini_file, ini, dsp_context, busy, buffers, target, remaining, block>>

-----------------------------------------------------------------------------
(* allocate_buffers.  No builtin module has MODULE_INPLACE_BROKEN, so the  *)
(* inputs are freed before the outputs are assigned.                       *)

\* need_buf once instance i is counted.
Need(i) ==
  MapThenSumSet(LAMBDA h : Len(instances[h].out) - Len(instances[h].in), 1..i)

peak_buf == Max({0} \cup {Need(i) : i \in 1..Len(instances)})

\* The n lowest buffers that are not in use, in ascending order.
use_buffers(used, n) ==
  LET free == (0..(Cardinality(used) + n)) \ used IN
  [k \in 1..n |-> CHOOSE b \in free : Cardinality({c \in free : c < b}) = k - 1]

Freed(ins) == {ins[n].buf_index : n \in 1..Len(ins)}

AssignBuffers ==
  /\ dsp_at = "assign" /\ running <= Len(instances)
  /\ LET inst == instances[running]
         ins == [n \in 1..Len(inst.in) |->
                   [inst.in[n] EXCEPT !.buf_index =
                      instances[inst.in[n].peer[1]].out[inst.in[n].peer[2]].buf_index]]
         freed == busy \ Freed(ins)
         taken == use_buffers(freed, Len(inst.out))
         outs == [n \in 1..Len(inst.out) |-> [inst.out[n] EXCEPT !.buf_index = taken[n]]]
     IN /\ instances' = [instances EXCEPT ![running].in = ins, ![running].out = outs]
        /\ busy' = freed \cup Range(taken)
  /\ running' = running + 1
  /\ UNCHANGED <<ini_file, ini, dsp_context, dsp_at, calls, visited, buffers, target,
                 remaining, block>>

\* calculate_audio_delay: only drc buffers, one pre-delay of it.
RECURSIVE total_delay(_)
total_delay(i) ==
  LET own == IF Plugin(instances[i].plugin).label = "drc" THEN 1 ELSE 0
  IN own + Max({0} \cup {total_delay(instances[i].in[n].peer[1]) :
                           n \in 1..Len(instances[i].in)})

cras_dsp_pipeline_instantiate ==
  /\ dsp_at = "assign" /\ running > Len(instances)
  /\ buffers' = [b \in 0..(peak_buf - 1) |-> [f \in 1..BUFFER_SIZE |-> <<"zero">>]]
  /\ instances' = [i \in 1..Len(instances) |->
                     [instances[i] EXCEPT !.total_delay = total_delay(i)]]
  /\ busy' = {}
  /\ calls' = <<>> /\ visited' = {}
  /\ dsp_at' = "apply"
  /\ UNCHANGED <<ini_file, ini, dsp_context, running, target, remaining, block>>

-----------------------------------------------------------------------------
(* cras_dsp_pipeline_apply, called from out_write through apply_dsp.       *)

apply_dsp ==
  /\ dsp_at = "apply"
  /\ block' = Block
  /\ target' = 0
  /\ remaining' = IF instances = <<>> THEN 0 ELSE BlockFrames
  /\ dsp_at' = IF instances = <<>> THEN "written" ELSE "chunk"
  /\ UNCHANGED <<ini_file, ini, dsp_context, calls, visited, instances, busy, buffers, running>>

Chunk == Min({remaining, BUFFER_SIZE})
BufferOf(ports, index) ==
  LET at == {n \in 1..Len(ports) : ports[n].original_index = index}
  IN ports[CHOOSE n \in at : TRUE].buf_index
input_channels == Len(instances[source_instance].out)
output_channels == Len(instances[sink_instance].in)

\* dsp_util_deinterleave.  A 16-bit sample is exact as a float.
ReadChunk ==
  /\ dsp_at = "chunk" /\ remaining > 0
  /\ buffers' = [b \in DOMAIN buffers |-> [f \in 1..BUFFER_SIZE |->
       LET c == {c \in 1..input_channels : BufferOf(instances[source_instance].out, c) = b} IN
       IF c = {} \/ f > Chunk THEN buffers[b][f]
       ELSE block[target + (f - 1) * input_channels + Min(c)]]]
  /\ running' = 1
  /\ dsp_at' = "run"
  /\ UNCHANGED <<ini_file, ini, dsp_context, calls, visited, instances, busy, target,
                 remaining, block>>

\* What the modules compute from one frame.
Filter(p, channel, x) == <<Plugin(p).label, p, channel, x>>
Compress(p, channel, x, y) == <<Plugin(p).label, p, channel, x, y>>

\* The run functions of the modules on one frame m of the buffers; b is the
\* buffer connected to each port.
Ports(inst) == [j \in {inst.in[n].original_index : n \in 1..Len(inst.in)}
                       \cup {inst.out[n].original_index : n \in 1..Len(inst.out)} |->
                  IF j \in {inst.in[n].original_index : n \in 1..Len(inst.in)}
                  THEN BufferOf(inst.in, j) ELSE BufferOf(inst.out, j)]

\* The two memcpys before eq2_process and drc_process.
CopyInputs(b, m) == LET first == [m EXCEPT ![b[3]] = m[b[1]]]
                    IN [first EXCEPT ![b[4]] = first[b[2]]]

eq_run(p, b, m) == [m EXCEPT ![b[2]] = Filter(p, 0, m[b[1]])]
eq2_run(p, b, m) ==
  LET c == CopyInputs(b, m) IN
  [c EXCEPT ![b[3]] = Filter(p, 0, c[b[3]]), ![b[4]] = Filter(p, 1, c[b[4]])]
drc_run(p, b, m) ==
  LET c == CopyInputs(b, m) IN
  [c EXCEPT ![b[3]] = Compress(p, 0, c[b[3]], c[b[4]]),
            ![b[4]] = Compress(p, 1, c[b[3]], c[b[4]])]
mix_stereo_run(p, b, m) ==
  LET tmp == Compress(p, 0, m[b[1]], m[b[2]]) IN [m EXCEPT ![b[3]] = tmp, ![b[4]] = tmp]
invert_lr_run(p, b, m) ==
  LET first == [m EXCEPT ![b[3]] = Filter(p, 0, m[b[1]])]
  IN [first EXCEPT ![b[4]] = first[b[2]]]

run(p, b, m) ==
  CASE Plugin(p).label = "eq" -> eq_run(p, b, m)
    [] Plugin(p).label = "eq2" -> eq2_run(p, b, m)
    [] Plugin(p).label = "drc" -> drc_run(p, b, m)
    [] Plugin(p).label = "mix_stereo" -> mix_stereo_run(p, b, m)
    [] Plugin(p).label = "invert_lr" -> invert_lr_run(p, b, m)
    [] OTHER -> m

cras_dsp_pipeline_run ==
  /\ dsp_at = "run" /\ running <= Len(instances)
  /\ LET inst == instances[running]
         after == [f \in 1..Chunk |->
                     run(inst.plugin, Ports(inst), [b \in DOMAIN buffers |-> buffers[b][f]])]
     IN buffers' = [b \in DOMAIN buffers |-> [f \in 1..BUFFER_SIZE |->
                      IF f <= Chunk THEN after[f][b] ELSE buffers[b][f]]]
  /\ running' = running + 1
  /\ UNCHANGED <<ini_file, ini, dsp_context, dsp_at, calls, visited, instances, busy,
                 target, remaining, block>>

WriteChunk ==
  /\ dsp_at = "run" /\ running > Len(instances)
  /\ block' = [i \in DOMAIN block |->
       LET k == i - target - 1
           f == (k \div output_channels) + 1
           c == (k % output_channels) + 1
       IN IF i > target /\ f <= Chunk
          THEN buffers[BufferOf(instances[sink_instance].in, c)][f] ELSE block[i]]
  /\ target' = target + Chunk * output_channels
  /\ remaining' = remaining - Chunk
  /\ dsp_at' = IF remaining = Chunk THEN "written" ELSE "chunk"
  /\ UNCHANGED <<ini_file, ini, dsp_context, calls, visited, instances, busy, buffers, running>>

WriteAgain ==
  /\ dsp_at = "written"
  /\ dsp_at' = "apply"
  /\ UNCHANGED <<ini_file, ini, dsp_context, calls, visited, instances, busy, buffers,
                 running, target, remaining, block>>

\* The device is closed: cras_dsp_pipeline_free.
cras_dsp_context_free ==
  /\ dsp_at = "apply"
  /\ dsp_context' = NoContext
  /\ instances' = <<>> /\ buffers' = <<>>
  /\ running' = 1 /\ target' = 0 /\ remaining' = 0
  /\ block' = Block
  /\ dsp_at' = "idle"
  /\ UNCHANGED <<ini_file, ini, calls, visited, busy>>

DspNext ==
  \/ cras_dsp_init
  \/ \E purpose \in {"playback", "voice-comm"}, name \in DspNames :
       cras_dsp_context_new(purpose, name)
  \/ cras_dsp_pipeline_create \/ topological_sort \/ PipelineCreated
  \/ AssignBuffers \/ cras_dsp_pipeline_instantiate
  \/ apply_dsp \/ ReadChunk \/ cras_dsp_pipeline_run \/ WriteChunk
  \/ WriteAgain \/ cras_dsp_context_free

DspSpec == DspInit /\ [][DspNext]_dspvars

-----------------------------------------------------------------------------
(* What the configuration says of a sample, from the wires alone.          *)

\* The output port that feeds an input port, in the text of the file.
Writer(p, j) ==
  CHOOSE x \in Places(ini_file) :
    /\ ini_file[x[1]].ports[x[2]].dir = "output"
    /\ ini_file[x[1]].ports[x[2]].name = ini_file[p].ports[j].name

\* Every wire that is read is also written.
Wired ==
  \A x \in Places(ini_file) :
    LET port == ini_file[x[1]].ports[x[2]] IN
    port.dir = "input" /\ port.name # "" =>
      \E y \in Places(ini_file) : LET from == ini_file[y[1]].ports[y[2]] IN
                                from.dir = "output" /\ from.name = port.name

\* The n-th port of a plugin of the given direction.
Nth(p, dir, n) ==
  LET ports == PortsOf(p, dir, "audio")
  IN CHOOSE j \in ports : Cardinality({i \in ports : i <= j}) = n
Rank(p, j) ==
  LET ports == PortsOf(p, Plugin(p).ports[j].dir, "audio")
  IN Cardinality({i \in ports : i <= j})

RECURSIVE Arrives(_, _, _)

\* The sample that arrives at the n-th audio input of p in frame f.
Arrives(p, n, f) ==
  LET writer == Writer(p, Nth(p, "input", n))
      q == writer[1]
      c == Rank(q, writer[2])
      label == ini_file[q].label
  IN CASE label = "source" -> <<"in", f, c - 1>>
       [] is_disabled(q) -> Arrives(q, c, f)
       [] label \in {"eq", "eq2"} -> Filter(q, c - 1, Arrives(q, c, f))
       [] label = "drc" -> Compress(q, c - 1, Arrives(q, 1, f), Arrives(q, 2, f))
       [] label = "mix_stereo" -> Compress(q, 0, Arrives(q, 1, f), Arrives(q, 2, f))
       [] label = "invert_lr" ->
            IF c = 1 THEN Filter(q, 0, Arrives(q, 1, f)) ELSE Arrives(q, 2, f)

\* A write of the HAL leaves in the block, for every frame and channel, what
\* the enabled plugins make of the samples along the wires of the
\* configuration, and the samples as they were if the configuration has no
\* enabled source or sink of this purpose or a loose wire; no port is given a buffer that
\* was not allocated (topological_sort, find_origin_port, allocate_buffers,
\* cras_dsp_pipeline_apply).
BlockFiltered ==
  /\ dsp_at = "apply" =>
       \A i \in 1..Len(instances) : \A n \in 1..Len(instances[i].out) :
         instances[i].out[n].buf_index < peak_buf
  /\ dsp_at = "written" =>
       \A f \in 0..(BlockFrames - 1), c \in 1..Channels :
         block[f * Channels + c] =
           IF Endpoints /\ Wired THEN Arrives(Endpoint("sink"), c, f)
           ELSE <<"in", f, c - 1>>

=============================================================================
