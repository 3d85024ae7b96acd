-------------------------------- MODULE Lan8670 --------------------------------
(***************************************************************************)
(* The driver of the Ethernet PHY (general/lan8670.c): its registers are    *)
(* read and written over the management bus (SMI), most of them indirectly, *)
(* by four transfers to two registers that select them (MMD).  A field is   *)
(* written by reading its register and writing it back.  Any transfer may   *)
(* fail, and one that writes may fail after it took effect.                 *)
(*                                                                         *)
(* One thread configures the PHY while another, the Ethernet driver's, asks *)
(* for the state of the link.  A register is the values of its fields.      *)
(* A suffixed name is a seeded fault.                                       *)
(***************************************************************************)
EXTENDS Naturals

CONSTANTS
    None,           \* nothing read
    MaxCalls        \* bound: calls

VARIABLES
    fields,         \* the device: the value of each field,
    mode,           \* MMDCTRL: MMDAD is an "address" or "data",
    selected,       \* and the register that MMDAD selects
    call,           \* each thread's call,
    pc,             \* its next transfer, <<access, step>>,
    data,           \* the register it read,
    got,            \* and what it was told
    calls,
    allowed         \* history: the values that a field may have

device == <<fields, mode, selected>>
vars == <<device, call, pc, data, got, calls, allowed>>

\* The registers' fields; of those alike, and of the two that only tell who
\* made the PHY, one.
Layout ==
    [BASIC_CONTROL |-> {"loopback", "low_power"}, BASIC_STATUS |-> {"link"},
     CDCTL0 |-> {"detection"}, PLCA_CTRL0 |-> {"plca"}, PLCA_STS |-> {"beacon"},
     PLCA_CTRL1 |-> {"node_count", "node_id"}, PLCA_TOTMR |-> {"totmr"}]
Fields == UNION {Layout[r] : r \in DOMAIN Layout}
Defaults ==
    [f \in Fields |-> CASE f \in {"link", "beacon"} -> 1 [] f = "totmr" -> 32 [] OTHER -> 0]

\* The calls of a function that sets a field, gets one, or writes a register
\* whose bit resets fields.
Calls(kind, bus, register, targets, values) ==
    {[kind |-> kind, bus |-> bus, register |-> register, targets |-> targets, value |-> v]
        : v \in values}
Set(bus, register, field, values) == Calls("set", bus, register, {field}, values)
Get(bus, register, field) == Calls("get", bus, register, {field}, {None})
Reset(bus, register, targets) == Calls("reset", bus, register, targets, {None})

LAN8670_Reset == Reset("smi", "BASIC_CONTROL", Fields)
LAN8670_Loopback == Set("smi", "BASIC_CONTROL", "loopback", {0, 1})
LAN8670_Low_Power_Mode == Set("smi", "BASIC_CONTROL", "low_power", {0, 1})
LAN8670_Collision_Detection == Set("mmd", "CDCTL0", "detection", {0, 1})
LAN8670_PLCA_On == Set("mmd", "PLCA_CTRL0", "plca", {0, 1})
LAN8670_PLCA_Reset == Reset("mmd", "PLCA_CTRL0", {"plca"})
LAN8670_PLCA_Set_Node_Count == Set("mmd", "PLCA_CTRL1", "node_count", {0, 2})
LAN8670_PLCA_Set_Node_Id == Set("mmd", "PLCA_CTRL1", "node_id", {0, 2})
LAN8670_PLCA_WriteTOTMR == Set("mmd", "PLCA_TOTMR", "totmr", {0, 2})
LAN8670_PLCA_ReadTOTMR == Get("mmd", "PLCA_TOTMR", "totmr")
LAN8670_PLCA_Get_Status == Get("mmd", "PLCA_STS", "beacon")
LAN8670_Get_Link_State == Get("smi", "BASIC_STATUS", "link")

Callers == {"app", "driver"}
CallsOf ==
    [app |-> LAN8670_Reset \cup LAN8670_Loopback \cup LAN8670_Low_Power_Mode
             \cup LAN8670_Collision_Detection \cup LAN8670_PLCA_On \cup LAN8670_PLCA_Reset
             \cup LAN8670_PLCA_Set_Node_Count \cup LAN8670_PLCA_Set_Node_Id
             \cup LAN8670_PLCA_WriteTOTMR \cup LAN8670_PLCA_ReadTOTMR
             \cup LAN8670_PLCA_Get_Status,
     driver |-> LAN8670_Get_Link_State]

Idle == <<"idle", 0>>

Init ==
    /\ fields = Defaults /\ mode = "data" /\ selected = "PLCA_STS"
    /\ call \in [Callers -> LAN8670_Get_Link_State]
    /\ pc = [t \in Callers |-> Idle]
    /\ data = [t \in Callers |-> Defaults] /\ got = [t \in Callers |-> None]
    /\ calls = 0
    /\ allowed = [f \in Fields |-> {Defaults[f]}]

-------------------------------------------------------------------------------
\* An access over MMD takes the steps 1 to 4, one over SMI the last.
Begin(access, c) == <<access, IF c.bus = "smi" THEN 4 ELSE 1>>

Call(t) ==
    /\ pc[t] = Idle /\ calls < MaxCalls
    /\ \E c \in CallsOf[t] :
          /\ call' = [call EXCEPT ![t] = c]
          /\ pc' = [pc EXCEPT ![t] = Begin(IF c.kind = "reset" THEN "write" ELSE "read", c)]
    /\ got' = [got EXCEPT ![t] = None]
    /\ calls' = calls + 1
    /\ UNCHANGED <<device, data, allowed>>

Return(t) == pc' = [pc EXCEPT ![t] = Idle]

\* The selection, in three writes: MMDCTRL, the offset in MMDAD, MMDCTRL.
Select(t) ==
    /\ pc[t][2] \in 1..3
    /\ \/ /\ CASE pc[t][2] = 1 -> mode' = "address" /\ UNCHANGED <<fields, selected>>
               [] pc[t][2] = 2 -> selected' = call[t].register /\ UNCHANGED <<fields, mode>>
               [] pc[t][2] = 3 -> mode' = "data" /\ UNCHANGED <<fields, selected>>
          /\ pc' = [pc EXCEPT ![t][2] = @ + 1] \/ Return(t)
       \/ Return(t) /\ UNCHANGED device
    /\ UNCHANGED <<call, data, got, calls, allowed>>

\* The register that the last transfer reaches.
Reached(c) == Layout[IF c.bus = "smi" THEN c.register ELSE selected]

\* LAN8670_PLCA_ReadTOTMR stores the bit-times into a bool.
Reported(f, v) == IF f = "totmr" /\ v # 0 THEN 1 ELSE v

\* A getter reports the field it read, a setter goes on to write.
Read_FailureForgotten(t) ==
    /\ pc[t] = <<"read", 4>>
    /\ \E read \in {fields, [f \in Fields |-> 0]} : data' = [data EXCEPT ![t] = read]
    /\ IF call[t].kind = "get"
       THEN \E f \in call[t].targets : got' = [got EXCEPT ![t] = Reported(f, fields[f])] /\ Return(t)
       ELSE pc' = [pc EXCEPT ![t] = Begin("write", call[t])] /\ UNCHANGED got
    /\ UNCHANGED <<device, call, calls, allowed>>

Read(t) ==
    /\ pc[t] = <<"read", 4>>
    /\ \/ /\ data' = [data EXCEPT ![t] =
                        [f \in Fields |-> IF f \in Reached(call[t]) THEN fields[f] ELSE @[f]]]
          /\ IF call[t].kind = "get"
             THEN \E f \in call[t].targets :
                     got' = [got EXCEPT ![t] = Reported(f, data'[t][f])] /\ Return(t)
             ELSE pc' = [pc EXCEPT ![t] = Begin("write", call[t])] /\ UNCHANGED got
       \/ Return(t) /\ UNCHANGED <<data, got>>
    /\ UNCHANGED <<device, call, calls, allowed>>

\* What the call makes of a field: its value, or that at reset.
Wanted(c, f) == IF c.kind = "set" THEN c.value ELSE Defaults[f]

\* The reset bit alone, or the register with the field changed.
Written(t) ==
    LET c == call[t]
    IN  [f \in Fields |->
            CASE f \in c.targets -> Wanted(c, f)
              [] f \notin c.targets /\ c.kind = "set" /\ f \in Reached(c) -> data[t][f]
              [] OTHER -> fields[f]]
Write(t) ==
    /\ pc[t] = <<"write", 4>>
    /\ \/ /\ fields' = Written(t)
          /\ allowed' = [f \in Fields |->
                            IF f \in call[t].targets THEN {Wanted(call[t], f)} ELSE allowed[f]]
       \/ /\ fields' = Written(t) \/ UNCHANGED fields
          /\ allowed' = [f \in Fields |-> allowed[f] \cup
                            (IF f \in call[t].targets THEN {Wanted(call[t], f)} ELSE {})]
    /\ Return(t)
    /\ UNCHANGED <<mode, selected, call, data, got, calls>>

Next == \E t \in Callers : Call(t) \/ Select(t) \/ Read(t) \/ Write(t)

Spec == Init /\ [][Next]_vars

(***************************************************************************)
(* Properties.                                                              *)
(***************************************************************************)

\* Whatever fails, a field has the value that it was last given, or one that a
\* failed call may have given it since, never one of another call's or of a
\* register that could not be read; a getter reports such a value, but for
\* the bit-times of PLCA_TOTMR, of which it only tells whether they are 0; and
\* an access in data mode is of the register it selected.
FieldsAsSet ==
    /\ \A f \in Fields : fields[f] \in allowed[f]
    /\ \A t \in Callers : got[t] # None =>
          \A f \in call[t].targets : got[t] \in {Reported(f, v) : v \in allowed[f]}
    /\ \A t \in Callers :
          pc[t][2] = 4 /\ call[t].bus = "mmd" => mode = "data" /\ selected = call[t].register
================================================================================
