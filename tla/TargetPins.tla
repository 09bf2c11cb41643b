----------------------------- MODULE TargetPins -----------------------------
(***************************************************************************)
(* Who drives the lines to the target.  free-dap (hal_config.h,            *)
(* dap_config.h) and Black Magic (platform.c, platform.h) use the same     *)
(* pins of the probe, and the same two level shifters, with no lock:       *)
(* free-dap in the USB interrupt, Black Magic in the gdb server thread,    *)
(* which can be interrupted between any two of its pin operations.         *)
(*                                                                         *)
(* A pin of the probe is an input or an output.  Between SWCLK, SWDIO and  *)
(* the target there is a level shifter, which points out or in: pointing   *)
(* in it drives the pin of the probe.  The levels are left out.            *)
(***************************************************************************)
EXTENDS Integers, Sequences

Shifted == {"SWCLK", "SWDIO"}
Pins == Shifted \cup {"TDI", "TDO", "NRST_OUT"}

VARIABLES
    mode,      \* mode[p]: "in" or "out"
    dir,       \* dir[p]: where the level shifter of p points, "in" or "out"
    todo,      \* pin operations left of what the gdb server thread is doing
    booted,    \* the gdb server thread has begun its platform_init
    attached,  \* the host has configured the probe, so dap_init has run
    dap_port,  \* "disabled", "swd" or "jtag"
    silent,    \* history: the last SWD operation had no valid answer
    torn,      \* history: free-dap came in the middle of what the thread did
    foreign,   \* history: Black Magic has touched a pin since dap_connect
    clock_off  \* history: Black Magic has switched the clock output off

pins == <<mode, dir>>
vars == <<mode, dir, todo, booted, attached, dap_port, silent, torn, foreign, clock_off>>

(***************************************************************************)
(* Pin operations: rt_pin_mode, and rt_pin_write of a direction pin.       *)
(***************************************************************************)

Mode(p, v) == [what |-> "mode", pin |-> p, to |-> v]
Dir(p, v) == [what |-> "dir", pin |-> p, to |-> v]

Do(s, op) == IF op.what = "mode" THEN [s EXCEPT !.mode[op.pin] = op.to]
                                 ELSE [s EXCEPT !.dir[op.pin] = op.to]

\* All the operations of ops, with nothing in between.
Ops == INSTANCE Iteration WITH Body <- LAMBDA s, ops, k : Do(s, ops[k])
DoOps(s, ops) == Ops!Iterated(s, ops, Len(ops))

DoAll(ops) ==
    LET s == DoOps([mode |-> mode, dir |-> dir], ops)
    IN  mode' = s.mode /\ dir' = s.dir

\* platform.c; TDO is made an input first, as SWO, and then an output.
platform_init ==
    <<Mode("NRST_OUT", "out"), Mode("SWCLK", "out"), Mode("SWDIO", "out"),
      Dir("SWCLK", "out"), Dir("SWDIO", "out"), Mode("TDO", "in"), Mode("TDO", "out")>>

platform_target_clk_output_enable(v) == <<Dir("SWCLK", v)>>

\* platform.h; TMS_SET_MODE is the same as SWDIO_MODE_DRIVE.
SWDIO_MODE_FLOAT == <<Mode("SWDIO", "in"), Dir("SWDIO", "in")>>
SWDIO_MODE_DRIVE == <<Mode("SWDIO", "out"), Dir("SWDIO", "out")>>

\* hal_config.h.
HAL_SWCLK_TCK_out == <<Dir("SWCLK", "out"), Mode("SWCLK", "out")>>
HAL_SWDIO_TMS_in == <<Dir("SWDIO", "in"), Mode("SWDIO", "in")>>

\* Mutant: the level shifter is not turned.
OutUnshifted == <<Mode("SWDIO", "out")>>

HAL_SWDIO_TMS_out == <<Dir("SWDIO", "out"), Mode("SWDIO", "out")>>

\* dap_config.h
DAP_CONFIG_CONNECT_SWD ==
    HAL_SWDIO_TMS_out \o HAL_SWCLK_TCK_out
        \o <<Mode("NRST_OUT", "out"), Mode("TDO", "in"), Mode("TDI", "in")>>

DAP_CONFIG_CONNECT_JTAG ==
    HAL_SWDIO_TMS_out \o HAL_SWCLK_TCK_out
        \o <<Mode("NRST_OUT", "out"), Mode("TDO", "in"), Mode("TDI", "out")>>

\* After a reset of the processor all pins are inputs.
Init ==
    /\ mode = [p \in Pins |-> "in"]
    /\ dir = [p \in Shifted |-> "in"]
    /\ todo = <<>>
    /\ booted = FALSE
    /\ attached = FALSE
    /\ dap_port = "disabled"
    /\ silent = FALSE
    /\ torn = FALSE
    /\ foreign = FALSE
    /\ clock_off = FALSE

(***************************************************************************)
(* The gdb server thread.                                                  *)
(***************************************************************************)

\* It starts with platform_init, and then does what a session needs.
\* Mutant: the next thing is begun before the last is done.
BeginQueued(ops) ==
    /\ todo' = todo \o ops
    /\ booted' = TRUE
    /\ torn' = (torn /\ \A k \in 1 .. Len(ops) : ops[k].pin # "SWDIO")
    /\ UNCHANGED <<pins, attached, dap_port, silent, foreign, clock_off>>

Begin(ops) ==
    /\ todo = <<>>
    /\ todo' = ops
    /\ booted' = TRUE
    /\ torn' = (torn /\ \A k \in 1 .. Len(ops) : ops[k].pin # "SWDIO")
    /\ UNCHANGED <<pins, attached, dap_port, silent, foreign, clock_off>>

PlatformInit == ~booted /\ Begin(platform_init)
Float == booted /\ Begin(SWDIO_MODE_FLOAT)
Drive == booted /\ Begin(SWDIO_MODE_DRIVE)
ClkOutputEnable(v) == booted /\ Begin(platform_target_clk_output_enable(v))

\* One pin operation of the thread.
Step ==
    /\ todo # <<>>
    /\ DoAll(<<Head(todo)>>)
    /\ todo' = Tail(todo)
    /\ foreign' = TRUE
    /\ clock_off' = IF Head(todo).what = "dir" /\ Head(todo).pin = "SWCLK"
                    THEN Head(todo).to = "in" ELSE clock_off
    /\ UNCHANGED <<booted, attached, dap_port, silent, torn>>

(***************************************************************************)
(* The USB interrupt: each handler does all its pin operations at once.    *)
(***************************************************************************)

Handler(ops) ==
    /\ DoAll(ops)
    /\ torn' = (todo # <<>>)
    /\ UNCHANGED <<todo, booted>>

\* dap_init, when the host configures the probe.
DapInit ==
    /\ Handler(platform_init)
    /\ attached' = TRUE
    /\ dap_port' = "disabled"
    /\ clock_off' = FALSE
    /\ UNCHANGED <<silent, foreign>>

\* dap_connect.
ConnectSwd ==
    /\ attached
    /\ Handler(DAP_CONFIG_CONNECT_SWD)
    /\ dap_port' = "swd"
    /\ silent' = FALSE /\ foreign' = FALSE /\ clock_off' = FALSE
    /\ UNCHANGED attached

ConnectJtag ==
    /\ attached
    /\ Handler(DAP_CONFIG_CONNECT_JTAG)
    /\ dap_port' = "jtag"
    /\ silent' = FALSE /\ foreign' = FALSE /\ clock_off' = FALSE
    /\ UNCHANGED attached

\* With a port that does not exist the pins stay as they are.
ConnectOther ==
    /\ attached
    /\ dap_port' = "disabled"
    /\ UNCHANGED <<pins, todo, booted, attached, silent, torn, foreign, clock_off>>

\* dap_disconnect.
Disconnect ==
    /\ attached
    /\ Handler(platform_init)
    /\ dap_port' = "disabled"
    /\ clock_off' = FALSE
    /\ UNCHANGED <<attached, silent, foreign>>

\* dap_swd_operation: the line is turned round for the answer, and back unless
\* there was none (quiet).
SwdOperation(quiet) ==
    /\ dap_port = "swd"
    /\ Handler(IF quiet THEN HAL_SWDIO_TMS_in ELSE HAL_SWDIO_TMS_in \o HAL_SWDIO_TMS_out)
    /\ silent' = quiet
    /\ UNCHANGED <<attached, dap_port, foreign, clock_off>>

\* dap_swd_sequence: parts that read, if any, and at the end the line is driven.
SwdSequence ==
    /\ dap_port = "swd"
    /\ Handler(HAL_SWDIO_TMS_in \o HAL_SWDIO_TMS_out)
    /\ silent' = FALSE
    /\ UNCHANGED <<attached, dap_port, foreign, clock_off>>

(***************************************************************************)
(* The specification.                                                      *)
(***************************************************************************)

Thread ==
    \/ PlatformInit \/ Float \/ Drive
    \/ \E v \in {"in", "out"} : ClkOutputEnable(v)
    \/ Step

USB ==
    \/ DapInit \/ ConnectSwd \/ ConnectJtag \/ ConnectOther \/ Disconnect
    \/ \E quiet \in BOOLEAN : SwdOperation(quiet)
    \/ SwdSequence

Next == Thread \/ USB

Spec == Init /\ [][Next]_vars

(***************************************************************************)
(* Properties.                                                             *)
(***************************************************************************)

TypeOK ==
    /\ mode \in [Pins -> {"in", "out"}]
    /\ dir \in [Shifted -> {"in", "out"}]
    /\ Len(todo) <= Len(platform_init)
    /\ dap_port \in {"disabled", "swd", "jtag"}
    /\ {booted, attached, silent, torn, foreign, clock_off} \subseteq BOOLEAN

\* Both the pin of the probe and the level shifter drive the wire between them.
Contention(p) == mode[p] = "out" /\ dir[p] = "in"

\* When nobody is in the middle of turning a line round, no two outputs drive it.
\* The exceptions are a free-dap request that comes between the two operations of
\* Black Magic, whose second then undoes half of the request, and the clock after
\* platform_target_clk_output_enable(false), which turns the shifter only.
NoContentionAtRest ==
    todo = <<>> =>
        \A p \in Shifted :
            Contention(p) => IF p = "SWDIO" THEN torn ELSE clock_off

\* As long as Black Magic keeps its hands off, a connected port has its lines,
\* whatever the sequence of requests: the clock and SWDIO / TMS driven through
\* their shifters (SWDIO unless an operation was not answered), TDO listened to,
\* TDI driven for JTAG only.
ConnectedLines ==
    (dap_port # "disabled" /\ ~foreign) =>
        /\ mode["SWCLK"] = "out" /\ dir["SWCLK"] = "out"
        /\ mode["SWDIO"] = dir["SWDIO"]
        /\ mode["SWDIO"] = "in" <=> silent
        /\ mode["TDO"] = "in"
        /\ mode["TDI"] = "out" <=> dap_port = "jtag"
=============================================================================
