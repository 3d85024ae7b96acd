------------------------------- MODULE Expander -------------------------------
(***************************************************************************)
(* The pins of two I/O expanders (general/tca9539.c, general/max7314.c): a   *)
(* pin is written by reading the register of its port and writing it back,  *)
(* in two transfers of which each may fail, and the second also after it    *)
(* took effect.  Any threads may write pins at the same time.               *)
(* A suffixed name is a seeded fault.                                       *)
(***************************************************************************)
EXTENDS Naturals

CONSTANTS
    Chips, Users,   \* expanders, and threads that write their pins
    Width,          \* REG_SIZE_BITS
    MaxCalls        \* bound: calls

PinsAssumption == Width \in Nat \ {0}

VARIABLES
    chip,
    high,           \* the device: the pins that are high, of each port
    call, pc, data, \* of each thread: its call, its next transfer, what it read
    calls,
    allowed,        \* history: what a pin may be
    mixed           \* history: ports of which two calls overlapped

vars == <<chip, high, call, pc, data, calls, allowed, mixed>>

Ports == {0, 1}
Bits == 0 .. Width - 1

\* A call of tca9539_write_pin names the register and the bit;
\* max7314_set_pin_state and max7314_set_pin_mode, which works on the output
\* registers too, take pins that go on through the ports.  The mode of the
\* first port's last pin goes to the second port, shifted by -1.
Undefined == Width
WritePin(port, bit, state) == [port |-> port, bit |-> bit, state |-> state]
tca9539_write_pin == {WritePin(p, b, s) : p \in Ports, b \in Bits, s \in BOOLEAN}
max7314_set_pin_state ==
    {WritePin(IF pin > Width - 1 THEN 1 ELSE 0, pin % Width, s)
        : pin \in 0 .. 2 * Width - 1, s \in BOOLEAN}
max7314_set_pin_mode ==
    {WritePin(IF pin < Width - 1 THEN 0 ELSE 1,
              IF pin = Width - 1 THEN Undefined ELSE pin % Width, m)
        : pin \in 0 .. 2 * Width - 1, m \in BOOLEAN}
CallsOf(c) ==
    IF c = "tca9539" THEN tca9539_write_pin ELSE max7314_set_pin_state \cup max7314_set_pin_mode

Init ==
    /\ chip \in Chips
    /\ high = [p \in Ports |-> IF chip = "max7314" /\ p = 0 THEN Width \div 2 .. Width - 1 ELSE Bits]
    /\ call \in [Users -> {WritePin(0, 0, FALSE)}]
    /\ pc = [u \in Users |-> "idle"] /\ data = [u \in Users |-> {}]
    /\ calls = 0
    /\ allowed = [p \in Ports |-> [b \in Bits |-> IF b \in high[p] THEN {TRUE} ELSE {FALSE}]]
    /\ mixed = {}

-------------------------------------------------------------------------------
Call(u) ==
    /\ pc[u] = "idle" /\ calls < MaxCalls
    /\ call' \in {[call EXCEPT ![u] = c] : c \in CallsOf(chip)}
    /\ pc' = [pc EXCEPT ![u] = "read"]
    /\ calls' = calls + 1
    /\ mixed' = mixed \cup {p \in Ports : \E v \in Users \ {u} :
                               pc[v] # "idle" /\ p = call[v].port /\ p = call'[u].port}
    /\ UNCHANGED <<chip, high, data, allowed>>

Read(u) ==
    /\ pc[u] = "read"
    /\ \/ /\ data' = [data EXCEPT ![u] = high[call[u].port]]
          /\ pc' = [pc EXCEPT ![u] = "write"]
       \/ pc' = [pc EXCEPT ![u] = "idle"] /\ UNCHANGED data
    /\ UNCHANGED <<chip, high, call, calls, allowed, mixed>>

\* The registers that the call may make of the one it read.
Modified_NotCleared(c, old) ==
    IF c.bit = Undefined THEN SUBSET Bits
    ELSE {IF c.state THEN old \cup {c.bit} ELSE old}

Modified(c, old) ==
    IF c.bit = Undefined THEN SUBSET Bits
    ELSE {(old \ {c.bit}) \cup (IF c.state THEN {c.bit} ELSE {})}

Write(u) ==
    /\ pc[u] = "write"
    /\ LET c == call[u]
       IN  \E new \in Modified(c, data[u]), failed \in BOOLEAN :
              /\ \/ high' = [high EXCEPT ![c.port] = new]
                 \/ failed /\ UNCHANGED high
              /\ allowed' = [allowed EXCEPT ![c.port] = [b \in Bits |->
                    CASE c.bit = Undefined -> BOOLEAN
                      [] c.bit = b -> IF failed THEN @[b] \cup {c.state} ELSE {c.state}
                      [] OTHER -> @[b]]]
    /\ pc' = [pc EXCEPT ![u] = "idle"]
    /\ UNCHANGED <<chip, call, data, calls, mixed>>

Next == \E u \in Users : Call(u) \/ Read(u) \/ Write(u)

Spec == Init /\ [][Next]_vars

(***************************************************************************)
(* Properties.                                                              *)
(***************************************************************************)

\* Whatever fails, a pin is what it was last set to, or what a failed call
\* may have set it to since, unless two calls for its port overlapped.
PinsAsSet ==
    \A p \in Ports \ mixed : \A b \in Bits : (b \in high[p]) \in allowed[p][b]
================================================================================
