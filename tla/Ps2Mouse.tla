------------------------------ MODULE Ps2Mouse ------------------------------
(***************************************************************************)
(* activate_mouse of the UEFI kernel (efi-boot/mouse.c) and the 8042 it    *)
(* talks to.  Every write first waits until bit 0 of the status register   *)
(* is clear: PS2_STATUS_INPUT has the value of PS2_STATUS_OUTPUT, so that  *)
(* wait_input_buffer_clear waits for the OUTPUT buffer to be empty.  Every *)
(* read waits until it is full.  Nothing looks at where a byte came from,  *)
(* and a key may put its scancode between a command and the answer.        *)
(*                                                                         *)
(* The controller takes a command at once, as the emulated one of the      *)
(* Makefile does; its answers come when the output buffer is free.  The    *)
(* bytes are sets of bits.                                                 *)
(***************************************************************************)
EXTENDS Naturals, Sequences, FiniteSets

CONSTANTS
  Configs,    \* command bytes of the controller that the firmware may leave
  Scancodes,  \* bytes of the keyboard
  MaxKeys     \* bound on the scancodes that arrive

ASSUME Ps2Assumption ==
  /\ Configs \subseteq SUBSET (0..7)
  /\ Scancodes \subseteq SUBSET (0..7)
  /\ MaxKeys \in Nat

VARIABLES
  at,        \* next line of activate_mouse
  config,    \* its local variable
  out,       \* the output buffer: at most one byte, with its sender
  answers,   \* what the controller and the mouse have still to send
  mode,      \* command byte of the controller
  expect,    \* what the next byte on the data port is for
  streaming, \* the mouse reports its movements
  keys       \* scancodes that have arrived

mouseVars == <<at, config, out, answers, mode, expect, streaming, keys>>

ACK == {1, 3, 4, 5, 6, 7}       \* 0xFA
Byte(sender, bits) == [from |-> sender, val |-> bits]

MouseInit ==
  /\ at = 1 /\ config = {}
  /\ out = <<>> /\ answers = <<>>
  /\ mode \in Configs /\ expect = "keyboard"
  /\ streaming = FALSE /\ keys = 0

-----------------------------------------------------------------------------
(* The program *)

(* A mutant: the answer to MOUSE_CMD_DEFAULTS is not read. *)
ScriptUnread ==
  << <<"command", "ENABLE_AUX">>, <<"command", "READ_CFG">>, <<"read", "config">>,
     <<"command", "WRITE_CFG">>, <<"data", "config">>,
     <<"command", "WRITE_MOUSE">>, <<"data", "DEFAULTS">>,
     <<"command", "WRITE_MOUSE">>, <<"data", "ENABLE">>, <<"read", "ack">> >>

(* A mutant: the last answer is not read. *)
ScriptShort ==
  << <<"command", "ENABLE_AUX">>, <<"command", "READ_CFG">>, <<"read", "config">>,
     <<"command", "WRITE_CFG">>, <<"data", "config">>,
     <<"command", "WRITE_MOUSE">>, <<"data", "DEFAULTS">>, <<"read", "ack">>,
     <<"command", "WRITE_MOUSE">>, <<"data", "ENABLE">> >>

(* A mutant: the mouse is not addressed the second time. *)
ScriptUnasked ==
  << <<"command", "ENABLE_AUX">>, <<"command", "READ_CFG">>, <<"read", "config">>,
     <<"command", "WRITE_CFG">>, <<"data", "config">>,
     <<"command", "WRITE_MOUSE">>, <<"data", "DEFAULTS">>, <<"read", "ack">>,
     <<"data", "ENABLE">>, <<"read", "ack">> >>

(* The calls of activate_mouse, in order.  write_data, declared in mouse.h *)
(* and defined nowhere, is taken for ps2_write_data.                       *)
Script ==
  << <<"command", "ENABLE_AUX">>, <<"command", "READ_CFG">>, <<"read", "config">>,
     <<"command", "WRITE_CFG">>, <<"data", "config">>,
     <<"command", "WRITE_MOUSE">>, <<"data", "DEFAULTS">>, <<"read", "ack">>,
     <<"command", "WRITE_MOUSE">>, <<"data", "ENABLE">>, <<"read", "ack">> >>

Returned == at = Len(Script) + 1
Doing(kind) == at \in DOMAIN Script /\ Script[at][1] = kind

(* config | 0x02, then & ~0x20. *)
NewConfig(c) == (c \cup {1}) \ {5}

(* Bit 0 of the status register is clear. *)
wait_input_buffer_clear == out = <<>>

wait_input_buffer_full == out # <<>>

(* The controller obeys a command. *)
Command(c) ==
  /\ mode' = IF c = "ENABLE_AUX" THEN mode \ {5} ELSE mode
  /\ answers' = IF c = "READ_CFG" THEN Append(answers, Byte("controller", mode)) ELSE answers
  /\ expect' = CASE c = "WRITE_CFG" -> "config" [] c = "WRITE_MOUSE" -> "mouse"
                 [] OTHER -> "keyboard"
  /\ streaming' = streaming

(* A byte on the data port goes where the last command said. *)
Data(d) ==
  /\ expect' = "keyboard"
  /\ mode' = IF expect = "config" THEN NewConfig(config) ELSE mode
  /\ IF expect = "mouse"
     THEN /\ streaming' = (d = "ENABLE")
          /\ answers' = Append(answers, Byte("mouse", ACK))
     ELSE UNCHANGED <<streaming, answers>>

ps2_write_command ==
  /\ Doing("command")
  /\ wait_input_buffer_clear
  /\ Command(Script[at][2])
  /\ at' = at + 1
  /\ UNCHANGED <<config, out, keys>>

ps2_write_data ==
  /\ Doing("data")
  /\ wait_input_buffer_clear
  /\ Data(Script[at][2])
  /\ at' = at + 1
  /\ UNCHANGED <<config, out, keys>>

read_data ==
  /\ Doing("read")
  /\ wait_input_buffer_full
  /\ config' = IF Script[at][2] = "config" THEN out[1].val ELSE config
  /\ out' = <<>>
  /\ at' = at + 1
  /\ UNCHANGED <<answers, mode, expect, streaming, keys>>

activate_mouse == ps2_write_command \/ ps2_write_data \/ read_data

-----------------------------------------------------------------------------
(* The devices: external *)

Answer ==
  /\ out = <<>> /\ answers # <<>>
  /\ out' = <<Head(answers)>>
  /\ answers' = Tail(answers)
  /\ UNCHANGED <<at, config, mode, expect, streaming, keys>>

(* Bit 4 of the command byte cuts the keyboard off. *)
Key ==
  /\ out = <<>> /\ 4 \notin mode /\ keys < MaxKeys
  /\ \E bits \in Scancodes : out' = <<Byte("keyboard", bits)>>
  /\ keys' = keys + 1
  /\ UNCHANGED <<at, config, answers, mode, expect, streaming>>

(* A movement follows the answer that the mouse still owes. *)
Movement ==
  /\ streaming /\ 5 \notin mode
  /\ out = <<>> /\ answers = <<>>
  /\ out' = <<Byte("movement", {})>>
  /\ UNCHANGED <<at, config, answers, mode, expect, streaming, keys>>

Devices == Answer \/ Key \/ Movement

-----------------------------------------------------------------------------
MouseTypeOK ==
  LET ByteOK == [from : {"controller", "mouse", "keyboard", "movement"}, val : SUBSET (0..7)]
  IN /\ at \in 1..Len(Script) + 1
     /\ config \subseteq 0..7 /\ mode \subseteq 0..7
     /\ out \in {<<>>} \cup {<<b>> : b \in ByteOK}
     /\ answers \in Seq(ByteOK) /\ Len(answers) <= 3
     /\ expect \in {"keyboard", "config", "mouse"}
     /\ streaming \in BOOLEAN /\ keys \in 0..MaxKeys

(* What activate_mouse was to read and did not. *)
Unread == Len(answers) + Cardinality({i \in DOMAIN out : out[i].from \in {"controller", "mouse"}})

(* When activate_mouse returns, the mouse reports its movements, with its  *)
(* interrupt on and its clock running, and every answer that was not read  *)
(* was pushed out of its turn by a scancode.  Without one, the first byte  *)
(* that handler_mouse reads is the first byte of a packet, and the other   *)
(* bits of the command byte are still those the firmware left.             *)
MouseReady == Returned => /\ streaming /\ mode \cap {1, 5} = {1}
                          /\ Unread <= keys
                          /\ keys = 0 => \E c \in Configs : mode = NewConfig(c)
=============================================================================
