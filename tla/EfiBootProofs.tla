---------------------------- MODULE EfiBootProofs ----------------------------
(* Proofs about EfiBoot and about Ps2Mouse, which is a part of it.         *)
EXTENDS EfiBoot, SequenceTheorems, FiniteSetTheorems, WellFoundedInduction, TLAPS

AnyByte == [from : {"controller", "mouse", "keyboard", "movement"}, val : SUBSET (0..7)]

(* Line l of activate_mouse has asked for so many answers ... *)
Asked(l) == IF l <= 2 THEN 0 ELSE IF l <= 7 THEN 1 ELSE IF l <= 10 THEN 2 ELSE 3

(* ... and is about to read so many of them. *)
Owed(l) == IF l \in {3, 8, 11} THEN 1 ELSE 0

(* The output buffer holds a byte of one of the senders. *)
Holds(senders) == out # <<>> /\ out[1].from \in senders

(* What line at relies on: the port the next byte goes to, and what the    *)
(* lines before it have done to the mouse and the command byte.            *)
Addressed ==
  /\ at = 5 => expect = "config"
  /\ at \in {7, 10} => expect = "mouse"
  /\ at > 10 <=> streaming
  /\ at > 5 => 1 \in mode /\ 5 \notin mode

(* Where a byte that is to be read comes from. *)
Sources ==
  /\ Holds({"keyboard"}) => keys > 0
  /\ Holds({"movement"}) => at > 10 /\ answers = <<>>
  /\ \A j \in 1..Len(answers) : answers[j].from \in {"controller", "mouse"}

(* An answer is read in its turn, or a scancode took its turn. *)
Accounts ==
  /\ Len(answers) <= Asked(at)
  /\ Len(answers) + (IF Holds({"controller", "mouse", "keyboard"}) THEN 1 ELSE 0)
       <= Owed(at) + keys

(* Until a scancode comes, config is what the firmware left. *)
FirmwareConfig ==
  /\ at <= 3 => \A j \in 1..Len(answers) : answers[j] = Byte("controller", mode)
  /\ at <= 3 /\ out # <<>> /\ out[1].from # "keyboard" => out[1] = Byte("controller", mode)
  /\ at <= 5 => \E c \in Configs : mode = c \/ mode = c \ {5}
  /\ at \in {4, 5} /\ keys = 0 => config = mode
  /\ at > 5 /\ keys = 0 => \E c \in Configs : mode = NewConfig(c)

MouseInv == MouseTypeOK /\ Addressed /\ Sources /\ Accounts /\ FirmwareConfig

-----------------------------------------------------------------------------
(* The lines of activate_mouse. *)
LEMMA ScriptLines ==
  /\ Len(Script) = 11 /\ DOMAIN Script = 1..11
  /\ \A l \in 1..11 :
       /\ Script[l][1] = "command" <=> l \in {1, 2, 4, 6, 9}
       /\ Script[l][1] = "data" <=> l \in {5, 7, 10}
       /\ Script[l][1] = "read" <=> l \in {3, 8, 11}
  /\ Script[1][2] = "ENABLE_AUX" /\ Script[2][2] = "READ_CFG" /\ Script[3][2] = "config"
  /\ Script[4][2] = "WRITE_CFG" /\ Script[5][2] = "config"
  /\ Script[6][2] = "WRITE_MOUSE" /\ Script[7][2] = "DEFAULTS" /\ Script[8][2] = "ack"
  /\ Script[9][2] = "WRITE_MOUSE" /\ Script[10][2] = "ENABLE" /\ Script[11][2] = "ack"
BY DEF Script

(* The type of Ps2Mouse without its LET. *)
LEMMA MouseType ==
  MouseTypeOK <=>
    /\ at \in 1..12
    /\ config \subseteq 0..7 /\ mode \subseteq 0..7
    /\ out \in {<<>>} \cup {<<b>> : b \in AnyByte}
    /\ answers \in Seq(AnyByte) /\ Len(answers) <= 3
    /\ expect \in {"keyboard", "config", "mouse"}
    /\ streaming \in BOOLEAN /\ keys \in 0..MaxKeys
BY ScriptLines DEF MouseTypeOK, AnyByte

(* The mouse before activate_mouse. *)
LEMMA MouseInitInv == MouseInit => MouseInv
<1> SUFFICES ASSUME MouseInit PROVE MouseInv
  OBVIOUS
<1>1. /\ at = 1 /\ config = {} /\ out = <<>> /\ answers = <<>> /\ Len(answers) = 0
      /\ mode \in Configs /\ mode \subseteq 0..7 /\ expect = "keyboard" /\ keys = 0
  BY Ps2Assumption, EmptySeq DEF MouseInit
<1>2. streaming \in BOOLEAN /\ ~streaming
  BY Zenon DEF MouseInit
<1>3. MouseTypeOK
  BY <1>1, <1>2, MouseType, Ps2Assumption, EmptySeq
<1>4. at > 10 <=> streaming
  BY <1>1, <1>2
<1>5. Addressed
  BY <1>1, <1>4 DEF Addressed
<1>6. Sources /\ Accounts /\ FirmwareConfig
  BY <1>1 DEF Sources, Accounts, FirmwareConfig, Holds, Asked, Owed
<1>7. QED
  BY <1>3, <1>5, <1>6 DEF MouseInv

(* A line of activate_mouse that writes a command. *)
LEMMA CommandInv == MouseInv /\ ps2_write_command => MouseInv'
<1> SUFFICES ASSUME MouseInv, ps2_write_command PROVE MouseInv'
  OBVIOUS
<1> USE Ps2Assumption
<1>1. at \in {1, 2, 4, 6, 9} /\ at' = at + 1 /\ out = <<>> /\ out' = <<>>
      /\ UNCHANGED <<config, keys>>
  BY ScriptLines, MouseType
     DEF MouseInv, ps2_write_command, Doing, wait_input_buffer_clear
<1>2. mode' = IF at = 1 THEN mode \ {5} ELSE mode
  BY <1>1, ScriptLines DEF ps2_write_command, Command
<1>3. answers' = IF at = 2 THEN Append(answers, Byte("controller", mode)) ELSE answers
  BY <1>1, ScriptLines DEF ps2_write_command, Command
<1>4. expect' = IF at = 4 THEN "config" ELSE IF at \in {6, 9} THEN "mouse" ELSE "keyboard"
  BY <1>1, ScriptLines DEF ps2_write_command, Command
<1>5. streaming' = streaming
  BY DEF ps2_write_command, Command
<1>6. Byte("controller", mode) \in AnyByte
  BY MouseType DEF MouseInv, Byte, AnyByte
<1>7. /\ answers' \in Seq(AnyByte)
      /\ Len(answers') = Len(answers) + (IF at = 2 THEN 1 ELSE 0)
      /\ at = 2 => Len(answers') = 1 /\ answers'[1] = Byte("controller", mode)
      /\ at # 2 => answers' = answers
  <2>1. answers \in Seq(AnyByte) /\ Len(answers) \in Nat
    BY MouseType, LenProperties DEF MouseInv
  <2>2. at = 2 => Len(answers) = 0
    BY <2>1 DEF MouseInv, Accounts, Asked
  <2>3. QED
    BY <1>1, <1>3, <1>6, <2>1, <2>2, AppendProperties
<1>8. Len(answers) \in Nat /\ Len(answers) <= Asked(at) /\ keys \in Nat
  BY MouseType, LenProperties DEF MouseInv, Accounts
<1>9. MouseTypeOK'
  <2>1. MouseTypeOK
    BY DEF MouseInv
  <2>2. Len(answers') <= 3
    BY <1>1, <1>7, <1>8 DEF Asked
  <2>3. QED
    BY <1>1, <1>2, <1>4, <1>5, <1>7, <2>1, <2>2, ScriptLines DEF MouseTypeOK, AnyByte
<1>10. Addressed'
  BY <1>1, <1>2, <1>4, <1>5 DEF MouseInv, Addressed
<1>11. Sources' /\ Accounts'
  BY <1>1, <1>7, <1>8 DEF MouseInv, Sources, Accounts, Holds, Asked, Owed, Byte
<1>12. FirmwareConfig'
  <2>1. (at <= 3 => \A j \in 1..Len(answers) : answers[j] = Byte("controller", mode))'
    BY <1>1, <1>2, <1>3, <1>7, <1>8 DEF Asked
  <2>2. (at <= 5 => \E c \in Configs : mode = c \/ mode = c \ {5})'
    <3>1. CASE at = 6 \/ at = 9
      BY <3>1, <1>1
    <3>2. CASE at \in {1, 2, 4}
      <4>1. PICK c \in Configs : mode = c \/ mode = c \ {5}
        BY <3>2 DEF MouseInv, FirmwareConfig
      <4>2. mode' = c \/ mode' = c \ {5}
        BY <4>1, <1>2
      <4>3. QED
        BY <4>2
    <3>3. QED
      BY <1>1, <3>1, <3>2
  <2>3. (at \in {4, 5} /\ keys = 0 => config = mode)'
    BY <1>1, <1>2 DEF MouseInv, FirmwareConfig
  <2>4. (at > 5 /\ keys = 0 => \E c \in Configs : mode = NewConfig(c))'
    BY <1>1, <1>2 DEF MouseInv, FirmwareConfig, NewConfig
  <2>5. QED
    BY <1>1, <2>1, <2>2, <2>3, <2>4 DEF FirmwareConfig
<1>13. QED
  BY <1>9, <1>10, <1>11, <1>12 DEF MouseInv

(* A line of activate_mouse that writes to the data port. *)
LEMMA DataInv == MouseInv /\ ps2_write_data => MouseInv'
<1> SUFFICES ASSUME MouseInv, ps2_write_data PROVE MouseInv'
  OBVIOUS
<1> USE Ps2Assumption
<1>1. at \in {5, 7, 10} /\ at' = at + 1 /\ out = <<>> /\ out' = <<>>
      /\ UNCHANGED <<config, keys>>
  BY ScriptLines, MouseType
     DEF MouseInv, ps2_write_data, Doing, wait_input_buffer_clear
<1>2. expect = (IF at = 5 THEN "config" ELSE "mouse") /\ expect' = "keyboard"
  BY <1>1 DEF MouseInv, Addressed, ps2_write_data, Data
<1>3. mode' = IF at = 5 THEN NewConfig(config) ELSE mode
  BY <1>1, <1>2 DEF ps2_write_data, Data
<1>4. answers' = IF at = 5 THEN answers ELSE Append(answers, Byte("mouse", ACK))
  BY <1>1, <1>2 DEF ps2_write_data, Data
<1>5. streaming' \in BOOLEAN /\ (at' > 10 <=> streaming')
  <2>1. CASE at = 5
    BY <2>1, <1>1, <1>2, MouseType DEF MouseInv, Addressed, ps2_write_data, Data
  <2>2. CASE at \in {7, 10}
    <3>1. streaming' = (Script[at][2] = "ENABLE")
      BY <2>2, <1>2 DEF ps2_write_data, Data
    <3>2. Script[at][2] = "ENABLE" <=> at = 10
      BY <2>2, ScriptLines
    <3>3. streaming' \in BOOLEAN /\ (streaming' <=> at = 10)
      BY <3>1, <3>2, Zenon
    <3>4. at = 10 <=> at' > 10
      BY <2>2, <1>1
    <3>5. QED
      BY <3>3, <3>4, Zenon
  <2>3. QED
    BY <1>1, <2>1, <2>2
<1>6. Byte("mouse", ACK) \in AnyByte
  BY DEF Byte, ACK, AnyByte
<1>7. /\ answers' \in Seq(AnyByte)
      /\ Len(answers') = Len(answers) + (IF at = 5 THEN 0 ELSE 1)
      /\ \A j \in 1..Len(answers') : answers'[j].from \in {"controller", "mouse"}
  <2>1. answers \in Seq(AnyByte) /\ Len(answers) \in Nat
    BY MouseType, LenProperties DEF MouseInv
  <2>2. CASE at = 5
    BY <2>1, <2>2, <1>4 DEF MouseInv, Sources
  <2>3. CASE at # 5
    <3>1. /\ answers' \in Seq(AnyByte) /\ Len(answers') = Len(answers) + 1
          /\ \A j \in 1..Len(answers) : answers'[j] = answers[j]
          /\ answers'[Len(answers) + 1] = Byte("mouse", ACK)
      BY <2>1, <2>3, <1>4, <1>6, AppendProperties
    <3>2. Byte("mouse", ACK).from = "mouse"
      BY DEF Byte
    <3>3. QED
      BY <2>1, <2>3, <3>1, <3>2 DEF MouseInv, Sources
  <2>4. QED
    BY <2>2, <2>3
<1>8. Len(answers) \in Nat /\ Len(answers) <= Asked(at) /\ keys \in Nat
  BY MouseType, LenProperties DEF MouseInv, Accounts
<1>9. mode' \subseteq 0..7 /\ config \subseteq 0..7 /\ (at' > 5 => 1 \in mode' /\ 5 \notin mode')
  BY <1>1, <1>3, MouseType DEF MouseInv, Addressed, NewConfig
<1>10. MouseTypeOK'
  <2>1. keys \in 0..MaxKeys
    BY MouseType DEF MouseInv
  <2>2. Len(answers') <= 3
    BY <1>1, <1>7, <1>8 DEF Asked
  <2>3. QED
    BY <1>1, <1>2, <1>5, <1>7, <1>9, <2>1, <2>2, ScriptLines DEF MouseTypeOK, AnyByte
<1>11. Addressed'
  BY <1>1, <1>5, <1>9 DEF Addressed
<1>12. Sources' /\ Accounts'
  BY <1>1, <1>7, <1>8 DEF MouseInv, Sources, Accounts, Holds, Asked, Owed
<1>13. FirmwareConfig'
  <2>1. ASSUME keys = 0 PROVE \E c \in Configs : mode' = NewConfig(c)
    <3>1. CASE at = 5
      <4>1. PICK c \in Configs : mode = c \/ mode = c \ {5}
        BY <3>1 DEF MouseInv, FirmwareConfig
      <4>2. mode' = NewConfig(c)
        BY <2>1, <3>1, <4>1, <1>3 DEF MouseInv, FirmwareConfig, NewConfig
      <4>3. QED
        BY <4>2
    <3>2. CASE at # 5
      BY <2>1, <3>2, <1>1, <1>3 DEF MouseInv, FirmwareConfig
    <3>3. QED
      BY <3>1, <3>2
  <2>2. QED
    BY <1>1, <2>1 DEF FirmwareConfig
<1>14. QED
  BY <1>10, <1>11, <1>12, <1>13 DEF MouseInv

(* A line of activate_mouse that reads: an answer, or whatever else is in  *)
(* the output buffer.                                                      *)
LEMMA ReadInv == MouseInv /\ read_data => MouseInv'
<1> SUFFICES ASSUME MouseInv, read_data PROVE MouseInv'
  OBVIOUS
<1> USE Ps2Assumption
<1>1. at \in {3, 8, 11} /\ at' = at + 1 /\ out # <<>> /\ out' = <<>>
      /\ UNCHANGED <<answers, mode, expect, streaming, keys>>
  BY ScriptLines, MouseType
     DEF MouseInv, read_data, Doing, wait_input_buffer_full
<1>2. config' = IF at = 3 THEN out[1].val ELSE config
  BY <1>1, ScriptLines DEF read_data
<1>3. out[1] \in AnyByte
  BY <1>1, MouseType DEF MouseInv
<1>4. Len(answers) \in Nat /\ Len(answers) <= Asked(at) /\ keys \in Nat
  BY MouseType, LenProperties DEF MouseInv, Accounts
<1>5. MouseTypeOK'
  <2>1. MouseTypeOK /\ config' \subseteq 0..7
    BY <1>2, <1>3, MouseType DEF MouseInv, AnyByte
  <2>2. QED
    BY <1>1, <2>1, ScriptLines DEF MouseTypeOK
<1>6. Addressed'
  BY <1>1 DEF MouseInv, Addressed
<1>7. Sources'
  BY <1>1 DEF MouseInv, Sources, Holds
<1>8. Accounts'
  <2>1. Len(answers) <= keys
    <3>1. CASE Holds({"movement"})
      BY <1>4, <3>1, EmptySeq DEF MouseInv, Sources
    <3>2. CASE Holds({"controller", "mouse", "keyboard"})
      BY <1>1, <1>4, <3>2 DEF MouseInv, Accounts, Owed
    <3>3. QED
      BY <1>1, <1>3, <3>1, <3>2 DEF Holds, AnyByte
  <2>2. QED
    BY <1>1, <1>4, <2>1 DEF Accounts, Holds, Asked, Owed
<1>9. FirmwareConfig'
  <2>1. ASSUME at = 3, keys = 0 PROVE config' = mode
    <3>1. out[1] = Byte("controller", mode)
      BY <1>1, <1>3, <2>1 DEF MouseInv, Sources, FirmwareConfig, Holds
    <3>2. QED
      BY <2>1, <1>2, <3>1 DEF Byte
  <2>2. QED
    BY <1>1, <2>1 DEF MouseInv, FirmwareConfig
<1>10. QED
  BY <1>5, <1>6, <1>7, <1>8, <1>9 DEF MouseInv

(* A byte reaches the output buffer. *)
LEMMA DevicesInv == MouseInv /\ Devices => MouseInv'
<1> SUFFICES ASSUME MouseInv, Devices PROVE MouseInv'
  OBVIOUS
<1> USE Ps2Assumption
<1>1. out = <<>> /\ UNCHANGED <<at, config, mode, expect, streaming>>
  BY DEF Devices, Answer, Key, Movement
<1>2. /\ MouseTypeOK /\ at \in 1..12 /\ keys \in 0..MaxKeys
      /\ answers \in Seq(AnyByte) /\ Len(answers) \in Nat
  BY MouseType, LenProperties DEF MouseInv
<1>3. Addressed'
  BY <1>1 DEF MouseInv, Addressed
<1>4. CASE Answer
  <2> DEFINE b == Head(answers)
  <2>1. out' = <<b>> /\ answers' = Tail(answers) /\ answers # <<>> /\ keys' = keys
    BY <1>4 DEF Answer
  <2>2. /\ b = answers[1] /\ b \in AnyByte
        /\ answers' \in Seq(AnyByte) /\ Len(answers) > 0
        /\ Len(answers') = Len(answers) - 1
        /\ \A j \in 1..Len(answers') : answers'[j] = answers[j + 1]
    BY <1>2, <2>1, HeadTailProperties, EmptySeq
  <2>3. b.from \in {"controller", "mouse"}
    BY <1>2, <2>2 DEF MouseInv, Sources
  <2> HIDE DEF b
  <2>4. out' # <<>> /\ out'[1] = b
    BY <2>1
  <2>5. MouseTypeOK'
    BY <1>1, <1>2, <2>1, <2>2 DEF MouseTypeOK, AnyByte
  <2>6. Sources'
    BY <1>1, <1>2, <2>2, <2>3, <2>4 DEF MouseInv, Sources, Holds
  <2>7. Accounts'
    BY <1>1, <1>2, <2>1, <2>2, <2>4 DEF MouseInv, Accounts, Holds, Asked, Owed
  <2>8. FirmwareConfig'
    BY <1>1, <1>2, <2>1, <2>2, <2>4 DEF MouseInv, FirmwareConfig
  <2>9. QED
    BY <1>3, <2>5, <2>6, <2>7, <2>8 DEF MouseInv
<1>5. CASE Key
  <2>1. PICK bits \in Scancodes : out' = <<Byte("keyboard", bits)>>
    BY <1>5 DEF Key
  <2>2. keys' = keys + 1 /\ keys' \in 0..MaxKeys /\ answers' = answers
    BY <1>2, <1>5 DEF Key
  <2>3. /\ out' # <<>> /\ out'[1] = Byte("keyboard", bits) /\ out'[1].from = "keyboard"
        /\ Byte("keyboard", bits) \in AnyByte
    BY <2>1 DEF Byte, AnyByte
  <2>4. MouseTypeOK'
    BY <1>1, <1>2, <2>1, <2>2, <2>3 DEF MouseTypeOK, AnyByte
  <2>5. Sources'
    BY <1>1, <1>2, <2>2, <2>3 DEF MouseInv, Sources, Holds
  <2>6. Accounts'
    BY <1>1, <1>2, <2>2, <2>3 DEF MouseInv, Accounts, Holds, Asked, Owed
  <2>7. FirmwareConfig'
    BY <1>1, <1>2, <2>2, <2>3 DEF MouseInv, FirmwareConfig
  <2>8. QED
    BY <1>3, <2>4, <2>5, <2>6, <2>7 DEF MouseInv
<1>6. CASE Movement
  <2>1. /\ out' = <<Byte("movement", {})>> /\ answers = <<>> /\ at > 10
        /\ UNCHANGED <<answers, keys>>
    BY <1>6 DEF Movement, MouseInv, Addressed
  <2>2. /\ out' # <<>> /\ out'[1] = Byte("movement", {}) /\ out'[1].from = "movement"
        /\ Byte("movement", {}) \in AnyByte
    BY <2>1 DEF Byte, AnyByte
  <2>3. MouseTypeOK'
    BY <1>1, <1>2, <2>1, <2>2 DEF MouseTypeOK, AnyByte
  <2>4. Sources' /\ Accounts' /\ FirmwareConfig'
    BY <1>1, <1>2, <2>1, <2>2
       DEF MouseInv, Sources, Accounts, FirmwareConfig, Holds, Asked, Owed
  <2>5. QED
    BY <1>3, <2>3, <2>4 DEF MouseInv
<1>7. QED
  BY <1>4, <1>5, <1>6 DEF Devices

(* Steps of main that do not concern the mouse. *)
LEMMA MouseStutters == MouseInv /\ UNCHANGED mouseVars => MouseInv'
BY DEF mouseVars, MouseInv, MouseTypeOK, Addressed, Sources, Accounts, FirmwareConfig, Holds

(* What the invariant says when activate_mouse has returned. *)
LEMMA ReadyMouse == MouseInv => MouseReady
<1> SUFFICES ASSUME MouseInv, Returned PROVE MouseReady
  BY DEF MouseReady
<1>1. at = 12
  BY ScriptLines DEF Returned
<1>2. streaming /\ mode \cap {1, 5} = {1}
  BY <1>1 DEF MouseInv, Addressed
<1>3. keys = 0 => \E c \in Configs : mode = NewConfig(c)
  BY <1>1 DEF MouseInv, FirmwareConfig
<1> DEFINE Own == {j \in DOMAIN out : out[j].from \in {"controller", "mouse"}}
<1>4. Cardinality(Own) = IF Holds({"controller", "mouse"}) THEN 1 ELSE 0
  <2>1. CASE Holds({"controller", "mouse"})
    <3>1. Own = {1}
      BY <2>1, MouseType DEF MouseInv, Holds
    <3>2. QED
      BY <2>1, <3>1, FS_Singleton
  <2>2. CASE ~Holds({"controller", "mouse"})
    <3>1. Own = {}
      BY <2>2, MouseType DEF MouseInv, Holds
    <3>2. QED
      BY <2>2, <3>1, FS_EmptySet
  <2>3. QED
    BY <2>1, <2>2
<1> HIDE DEF Own
<1>5. Len(answers) \in Nat /\ keys \in Nat
  BY MouseType, LenProperties, Ps2Assumption DEF MouseInv
<1>6. Len(answers) + Cardinality(Own) <= keys
  BY <1>1, <1>4, <1>5 DEF MouseInv, Accounts, Holds, Owed
<1>7. Unread <= keys
  BY <1>6 DEF Own, Unread
<1>8. QED
  BY <1>2, <1>3, <1>7 DEF MouseReady

-----------------------------------------------------------------------------
(* The memory map and the allocator *)

(* A set of numbers that is not empty has a least element. *)
LEMMA MinIsIn ==
  ASSUME NEW S \in SUBSET Nat, S # {}
  PROVE  Min(S) \in S
<1>1. PICK x \in S : \A y \in S : ~(<<y, x>> \in OpToRel(<, Nat))
  BY WFMin, NatLessThanWellFounded
<1>2. ASSUME NEW y \in S PROVE x <= y
  <2>1. y \in Nat /\ x \in Nat /\ <<y, x>> \in Nat \X Nat
    OBVIOUS
  <2>2. ~(<<y, x>> \in {pair \in Nat \X Nat : pair[1] < pair[2]})
    BY <1>1 DEF OpToRel
  <2>3. QED
    BY <2>1, <2>2
<1>3. QED
  BY <1>2 DEF Min

(* Cutting a page off a region leaves a memory map. *)
LEMMA TakeType ==
  ASSUME NEW m \in Seq(Region), NEW n \in DOMAIN m
  PROVE  Take(m, n) \in Seq(Region)
<1> DEFINE used == [conventional |-> FALSE, start |-> m[n].start, pages |-> 1]
           rest == [conventional |-> TRUE, start |-> m[n].start + PAGE, pages |-> m[n].pages - 1]
           middle == IF rest.pages = 0 THEN <<used>> ELSE <<used, rest>>
<1>1. Len(m) \in Nat /\ DOMAIN m = 1..Len(m) /\ n \in 1..Len(m) /\ m[n] \in Region
      /\ \A j \in 1..Len(m) : m[j] \in Region
  BY LenProperties, ElementOfSeq
<1>2. used \in Region
  BY <1>1 DEF Region
<1>3. rest.pages # 0 => rest \in Region
  BY <1>1, BootAssumption DEF Region
<1> HIDE DEF used, rest
<1>4. middle \in Seq(Region)
  BY <1>2, <1>3
<1>5. SubSeq(m, 1, n - 1) \in Seq(Region) /\ SubSeq(m, n + 1, Len(m)) \in Seq(Region)
  BY <1>1, SubSeqProperties
<1> HIDE DEF middle
<1>6. SubSeq(m, 1, n - 1) \o middle \o SubSeq(m, n + 1, Len(m)) \in Seq(Region)
  BY <1>4, <1>5, ConcatProperties
<1>7. QED
  BY <1>6 DEF Take, middle, used, rest

(* The region that my_malloc finds: address 0 when there is none. *)
LEMMA RegionFound ==
  ASSUME NEW m \in Seq(Region), NEW n \in Nat
  PROVE  /\ find_region_for_malloc(m, n) \in Nat
         /\ Fits(m, n) # {} =>
              /\ Min(Fits(m, n)) \in DOMAIN m /\ m[Min(Fits(m, n))].conventional
              /\ m[Min(Fits(m, n))] \in Region
              /\ find_region_for_malloc(m, n) = m[Min(Fits(m, n))].start
<1>1. DOMAIN m \subseteq Nat /\ \A j \in DOMAIN m : m[j] \in Region
  BY LenProperties, ElementOfSeq
<1>2. Fits(m, n) \in SUBSET Nat
  BY <1>1 DEF Fits
<1>3. Fits(m, n) # {} => Min(Fits(m, n)) \in Fits(m, n)
  BY <1>2, MinIsIn
<1>4. Fits(m, n) # {} => Min(Fits(m, n)) \in DOMAIN m /\ m[Min(Fits(m, n))].conventional
  BY <1>3 DEF Fits
<1>5. QED
  BY <1>1, <1>4 DEF find_region_for_malloc, Region

(* The second block is appended to the first. *)
LEMMA AppendToOne ==
  ASSUME NEW x, NEW y
  PROVE  Append(<<x>>, y) = <<x, y>>
<1>1. <<x>> \in Seq({x, y}) /\ <<x, y>> \in Seq({x, y}) /\ Len(<<x>>) = 1 /\ Len(<<x, y>>) = 2
  OBVIOUS
<1> DEFINE s == Append(<<x>>, y)
<1>2. s \in Seq({x, y}) /\ Len(s) = 2 /\ s[1] = x /\ s[2] = y
  BY <1>1, AppendProperties
<1> HIDE DEF s
<1>3. s = <<x, y>>
  BY <1>1, <1>2, SeqEqual
<1>4. QED
  BY <1>3 DEF s

(* my_malloc(4096) asks for two pages where one would do. *)
LEMMA TwoPages == PAGE \div PAGE + 1 = 2
BY BootAssumption

-----------------------------------------------------------------------------
(* The boot phase *)

(* The map that main works with is the one of the firmware from the second *)
(* GetMemoryMap on, as long as the key says so.                            *)
UpToDate ==
  /\ pc \in {"LocateProtocol", "GetMemoryMap", "malloc", "GetMemoryMap2"} => memory_map = <<>>
  /\ pc = "ExitBootServices" /\ map_key = key => memory_map = firmware
  /\ pc \in {"selftest", "idt", "activate_mouse", "buffer", "loop"} => memory_map = firmware

FirstBlock == [start |-> find_region_for_malloc(memory_map, 2), bytes |-> PAGE]
SecondBlock == [start |-> find_region_for_malloc(memory_map, 2) + PAGE, bytes |-> size_buffer]

(* The blocks are neighbours, and the first is at the start of a region. *)
HandedOut ==
  /\ pc \notin {"idt", "activate_mouse", "buffer", "loop"} =>
       blocks = <<>> /\ next_addr_available = 0
  /\ pc \in {"idt", "activate_mouse", "buffer"} =>
       blocks = <<FirstBlock>> /\ next_addr_available = FirstBlock.start + PAGE
  /\ pc = "loop" => blocks = <<FirstBlock, SecondBlock>>

BootInv == TypeOK /\ UpToDate /\ HandedOut /\ MouseInv

(* The key that GetMemoryMap returns. *)
LEMMA KeyType == TypeOK => key \in 0..key
<1>1. TypeOK => key \in 0..MaxEvents
  BY DEF TypeOK
<1>2. MaxEvents \in Nat
  BY BootAssumption
<1>3. QED
  BY <1>1, <1>2

(* Where main starts. *)
LEMMA BootInit == Init => BootInv
<1> SUFFICES ASSUME Init PROVE BootInv
  OBVIOUS
<1>1. MouseInv /\ MouseTypeOK
  BY MouseInitInv DEF Init, MouseInv
<1>2. firmware \in Seq(Region) /\ memory_map \in Seq(Region) /\ Len(memory_map) = 0
  BY BootAssumption, EmptySeq DEF Init
<1>3. blocks \in Seq([start : Nat, bytes : Nat]) /\ Len(blocks) = 0
  BY EmptySeq DEF Init
<1>4. TypeOK
  BY <1>1, <1>2, <1>3, BootAssumption DEF Init, TypeOK
<1>5. QED
  BY <1>1, <1>4 DEF BootInv, Init, UpToDate, HandedOut

(* What the firmware does on its own is seen in the key. *)
LEMMA FirmwareInv == BootInv /\ FirmwareEvent => BootInv'
<1> SUFFICES ASSUME BootInv, FirmwareEvent PROVE BootInv'
  OBVIOUS
<1>1. MouseInv' /\ MouseTypeOK'
  BY MouseStutters DEF BootInv, FirmwareEvent, MouseInv
<1>2. firmware' \in Seq(Region)
  BY TakeType DEF BootInv, TypeOK, FirmwareEvent
<1>3. /\ UNCHANGED <<pc, size, memory_map, map_key, next_addr_available, blocks,
                     size_buffer, gates>>
      /\ key' \in 0..MaxEvents /\ map_key \in 0..key' /\ map_key # key' /\ ServicesUp
  <2>1. key \in 0..MaxEvents /\ map_key \in 0..key
    BY DEF BootInv, TypeOK
  <2>2. /\ key' = key + 1 /\ key < MaxEvents /\ ServicesUp
        /\ UNCHANGED <<pc, size, memory_map, map_key, next_addr_available, blocks,
                       size_buffer, gates>>
    BY DEF FirmwareEvent
  <2>3. key' \in 0..MaxEvents /\ map_key \in 0..key' /\ map_key # key'
    BY <2>1, <2>2, BootAssumption
  <2>4. QED
    BY <2>2, <2>3
<1>4. TypeOK'
  BY <1>1, <1>2, <1>3 DEF BootInv, TypeOK
<1>5. UpToDate'
  BY <1>3 DEF BootInv, UpToDate, ServicesUp
<1>6. HandedOut'
  BY DEF BootInv, HandedOut, FirmwareEvent, FirstBlock, SecondBlock
<1>7. QED
  BY <1>1, <1>4, <1>5, <1>6 DEF BootInv

(* The steps before main owns the memory. *)
LEMMA ServicesInv ==
  BootInv /\ (LocateProtocol \/ GetMemoryMap \/ Malloc \/ GetMemoryMap2 \/ ExitBootServices)
    => BootInv'
<1> SUFFICES ASSUME BootInv,
                    LocateProtocol \/ GetMemoryMap \/ Malloc \/ GetMemoryMap2 \/ ExitBootServices
             PROVE  BootInv'
  OBVIOUS
<1> USE DEF LocateProtocol, Malloc, CallElseReturn, GetMemoryMap, GetMemoryMap2, ExitBootServices
<1>1. MouseInv' /\ MouseTypeOK'
  BY MouseStutters DEF BootInv, MouseInv
<1>2. Len(firmware) \in Nat /\ (memory_map = <<>> => Len(memory_map) = 0)
  BY LenProperties, EmptySeq DEF BootInv, TypeOK
<1>3. TypeOK'
  <2>1. CASE GetMemoryMap
    BY <1>1, <1>2, <2>1 DEF BootInv, TypeOK, UpToDate
  <2>2. CASE GetMemoryMap2
    <3>1. CASE Len(firmware) > size
      BY <1>1, <2>2, <3>1 DEF BootInv, TypeOK
    <3>2. CASE ~(Len(firmware) > size)
      <4>1. /\ pc' = "ExitBootServices" /\ size' = Len(firmware) /\ memory_map' = firmware
            /\ map_key' = key
            /\ UNCHANGED <<firmware, key, next_addr_available, blocks, size_buffer, gates>>
        BY <2>2, <3>2
      <4>2. /\ firmware \in Seq(Region) /\ key \in 0..MaxEvents /\ key \in 0..key
            /\ next_addr_available \in Nat /\ blocks \in Seq([start : Nat, bytes : Nat])
            /\ Len(blocks) <= 2 /\ size_buffer \in BufferSizes /\ gates \subseteq 0..255
        BY KeyType DEF BootInv, TypeOK
      <4>3. QED
        BY <1>1, <1>2, <4>1, <4>2 DEF TypeOK
    <3>3. QED
      BY <3>1, <3>2
  <2>3. CASE LocateProtocol \/ Malloc \/ ExitBootServices
    BY <1>1, <2>3 DEF BootInv, TypeOK
  <2>4. QED
    BY <2>1, <2>2, <2>3
<1>4. UpToDate'
  BY DEF BootInv, UpToDate
<1>5. HandedOut'
  BY DEF BootInv, HandedOut
<1>6. QED
  BY <1>1, <1>3, <1>4, <1>5 DEF BootInv

(* my_malloc finds a region for the first block. *)
LEMMA SelfTestInv == BootInv /\ SelfTest => BootInv'
<1> SUFFICES ASSUME BootInv, SelfTest PROVE BootInv'
  OBVIOUS
<1>1. MouseInv' /\ MouseTypeOK'
  BY MouseStutters DEF BootInv, SelfTest, MouseInv
<1>2. blocks = <<>> /\ next_addr_available = 0 /\ memory_map \in Seq(Region)
  BY DEF BootInv, HandedOut, SelfTest, TypeOK
<1>3. Address(PAGE) = find_region_for_malloc(memory_map, 2)
  BY <1>2, TwoPages DEF Address
<1>4. find_region_for_malloc(memory_map, 2) \in Nat
  BY <1>2, RegionFound
<1>5. FirstBlock' = FirstBlock
  BY DEF SelfTest, FirstBlock
<1>6. blocks' = <<FirstBlock>> /\ next_addr_available' = FirstBlock.start + PAGE
  BY <1>2, <1>3 DEF SelfTest, my_malloc, FirstBlock
<1>7. FirstBlock \in [start : Nat, bytes : Nat] /\ FirstBlock.start + PAGE \in Nat
  BY <1>4, BootAssumption DEF FirstBlock
<1>8. blocks' \in Seq([start : Nat, bytes : Nat]) /\ Len(blocks') = 1
  BY <1>6, <1>7
<1>9. TypeOK'
  BY <1>1, <1>6, <1>7, <1>8 DEF BootInv, TypeOK, SelfTest
<1>10. UpToDate'
  BY DEF BootInv, UpToDate, SelfTest
<1>11. HandedOut'
  BY <1>5, <1>6 DEF HandedOut, SelfTest
<1>12. QED
  BY <1>1, <1>9, <1>10, <1>11 DEF BootInv

(* The second block begins where the first one ends. *)
LEMMA BackBufferInv == BootInv /\ BackBuffer => BootInv'
<1> SUFFICES ASSUME BootInv, BackBuffer PROVE BootInv'
  OBVIOUS
<1>1. MouseInv' /\ MouseTypeOK'
  BY MouseStutters DEF BootInv, BackBuffer, MouseInv
<1>2. /\ blocks = <<FirstBlock>> /\ next_addr_available = FirstBlock.start + PAGE
      /\ memory_map \in Seq(Region) /\ size_buffer \in Nat
  BY BootAssumption DEF BootInv, HandedOut, BackBuffer, TypeOK
<1>3. FirstBlock.start \in Nat /\ FirstBlock.start = find_region_for_malloc(memory_map, 2)
  BY <1>2, RegionFound DEF FirstBlock
<1>4. Address(size_buffer) = FirstBlock.start + PAGE
  BY <1>2, <1>3, BootAssumption DEF Address
<1>5. FirstBlock' = FirstBlock /\ SecondBlock' = SecondBlock
  BY DEF BackBuffer, FirstBlock, SecondBlock
<1>6. SecondBlock = [start |-> FirstBlock.start + PAGE, bytes |-> size_buffer]
  BY <1>3 DEF SecondBlock
<1>7. /\ blocks' = <<FirstBlock, SecondBlock>>
      /\ next_addr_available' = FirstBlock.start + PAGE + size_buffer
  <2>1. Append(<<FirstBlock>>, SecondBlock) = <<FirstBlock, SecondBlock>>
    BY AppendToOne
  <2>2. /\ blocks' = Append(blocks, [start |-> Address(size_buffer), bytes |-> size_buffer])
        /\ next_addr_available' = Address(size_buffer) + size_buffer
    BY DEF BackBuffer, my_malloc
  <2>3. QED
    BY <1>2, <1>4, <1>6, <2>1, <2>2
<1>8. FirstBlock \in [start : Nat, bytes : Nat] /\ SecondBlock \in [start : Nat, bytes : Nat]
  BY <1>2, <1>3, <1>6, BootAssumption DEF FirstBlock
<1>9. blocks' \in Seq([start : Nat, bytes : Nat]) /\ Len(blocks') = 2
  BY <1>7, <1>8
<1>10. next_addr_available' \in Nat
  BY <1>2, <1>3, <1>7, BootAssumption
<1>11. TypeOK'
  BY <1>1, <1>9, <1>10 DEF BootInv, TypeOK, BackBuffer
<1>12. UpToDate'
  BY DEF BootInv, UpToDate, BackBuffer
<1>13. HandedOut'
  BY <1>5, <1>7 DEF HandedOut, BackBuffer
<1>14. QED
  BY <1>1, <1>11, <1>12, <1>13 DEF BootInv

(* Steps that leave the memory alone. *)
LEMMA OtherInv ==
  BootInv /\ (initiate_idt \/ ActivateMouse \/ Sti \/ Device(Devices) \/ UNCHANGED vars) => BootInv'
<1> SUFFICES ASSUME BootInv,
                    initiate_idt \/ ActivateMouse \/ Sti \/ Device(Devices) \/ UNCHANGED vars
             PROVE  BootInv'
  OBVIOUS
<1>1. MouseInv' /\ MouseTypeOK'
  <2>1. MouseInv'
    BY MouseStutters, CommandInv, DataInv, ReadInv, DevicesInv
       DEF BootInv, initiate_idt, ActivateMouse, activate_mouse, Sti, Device, vars
  <2>2. QED
    BY <2>1 DEF MouseInv
<1>2. /\ UNCHANGED <<firmware, key, size, memory_map, map_key, next_addr_available, blocks, size_buffer>>
      /\ gates' \in {gates, {3, 32, 33, 44}}
      /\ \/ pc' = pc
         \/ pc = "idt" /\ pc' = "activate_mouse"
         \/ pc = "activate_mouse" /\ pc' = "buffer"
  BY DEF initiate_idt, ActivateMouse, Sti, Device, vars, bootVars
<1>3. TypeOK'
  <2>1. {3, 32, 33, 44} \subseteq 0..255
    OBVIOUS
  <2>2. gates \subseteq 0..255
    BY DEF BootInv, TypeOK
  <2>3. gates' \subseteq 0..255
    <3>1. CASE gates' = gates
      BY <3>1, <2>2
    <3>2. CASE gates' = {3, 32, 33, 44}
      BY <3>2, <2>1
    <3>3. QED
      BY <1>2, <3>1, <3>2
  <2>4. QED
    BY <1>1, <1>2, <2>3 DEF BootInv, TypeOK
<1>4. UpToDate'
  BY <1>2 DEF BootInv, UpToDate
<1>5. FirstBlock' = FirstBlock /\ SecondBlock' = SecondBlock
  BY <1>2 DEF FirstBlock, SecondBlock
<1>6. HandedOut'
  BY <1>2, <1>5 DEF BootInv, HandedOut
<1>7. QED
  BY <1>1, <1>3, <1>4, <1>6 DEF BootInv

(* The inductive invariant of the boot phase. *)
THEOREM BootInvariant == Spec => []BootInv
<1>1. BootInv /\ [Next]_vars => BootInv'
  BY FirmwareInv, ServicesInv, SelfTestInv, BackBufferInv, OtherInv DEF Next, MainStep
<1>2. QED
  BY BootInit, <1>1, PTL DEF Spec

(* The blocks are neighbours: they share no byte. *)
LEMMA ApartBlocks == BootInv => BlocksApart
<1> SUFFICES ASSUME BootInv PROVE BlocksApart
  OBVIOUS
<1>1. FirstBlock.start \in Nat /\ FirstBlock.bytes = PAGE
      /\ SecondBlock.start = FirstBlock.start + PAGE /\ SecondBlock.bytes = size_buffer
      /\ size_buffer \in Nat
  BY RegionFound, BootAssumption DEF BootInv, TypeOK, FirstBlock, SecondBlock
<1>2. Bytes(FirstBlock) \cap Bytes(SecondBlock) = {}
  BY <1>1, BootAssumption DEF Bytes
<1>3. blocks \in {<<>>, <<FirstBlock>>, <<FirstBlock, SecondBlock>>}
  BY DEF BootInv, TypeOK, HandedOut
<1>4. \A j, k \in DOMAIN blocks : j # k =>
        {blocks[j], blocks[k]} = {FirstBlock, SecondBlock}
  BY <1>3
<1>5. QED
  BY <1>2, <1>3 DEF BlocksApart

(* Both blocks lie in the region that was found, if it is large enough. *)
LEMMA FreeBlocks == BootInv => BlocksFree
<1> DEFINE fit == Fits(firmware, 2)
           total == IF Len(blocks) = 2 THEN PAGE + size_buffer ELSE PAGE
           r == firmware[Min(fit)]
<1> SUFFICES ASSUME BootInv, fit # {}, r.pages * PAGE >= total,
                    NEW n \in DOMAIN blocks
             PROVE  Bytes(blocks[n]) \subseteq Free
  BY DEF BlocksFree
<1>1. memory_map = firmware /\ blocks \in {<<FirstBlock>>, <<FirstBlock, SecondBlock>>}
  <2>1. blocks # <<>>
    OBVIOUS
  <2>2. pc \in {"idt", "activate_mouse", "buffer", "loop"}
    BY <2>1 DEF BootInv, HandedOut
  <2>3. QED
    BY <2>2 DEF BootInv, UpToDate, HandedOut
<1>2. Min(fit) \in DOMAIN firmware /\ r.conventional /\ r \in Region
      /\ FirstBlock.start = r.start
  BY <1>1, RegionFound DEF BootInv, TypeOK, FirstBlock
<1>3. /\ size_buffer \in Nat /\ r.start \in Nat /\ r.pages * PAGE \in Nat
      /\ FirstBlock.bytes = PAGE
      /\ SecondBlock.start = r.start + PAGE /\ SecondBlock.bytes = size_buffer
  <2>1. size_buffer \in Nat
    BY BootAssumption DEF BootInv, TypeOK
  <2>2. r.start \in Nat /\ r.pages \in Nat /\ PAGE \in Nat
    BY <1>2, BootAssumption DEF Region
  <2>3. r.pages * PAGE \in Nat
    BY <2>2
  <2>4. QED
    BY <1>2, <2>1, <2>2, <2>3 DEF FirstBlock, SecondBlock
<1>4. r.start..r.start + r.pages * PAGE - 1 \subseteq Free
  BY <1>2 DEF Free
<1> HIDE DEF r, fit
<1>5. CASE blocks = <<FirstBlock>>
  <2>1. n = 1 /\ blocks[n] = FirstBlock /\ total = PAGE
    BY <1>5
  <2>2. Bytes(FirstBlock) \subseteq r.start..r.start + r.pages * PAGE - 1
    BY <1>2, <1>3, <2>1, BootAssumption DEF Bytes
  <2>3. QED
    BY <2>1, <2>2, <1>4
<1>6. CASE blocks = <<FirstBlock, SecondBlock>>
  <2>1. n \in {1, 2} /\ blocks[1] = FirstBlock /\ blocks[2] = SecondBlock
        /\ total = PAGE + size_buffer
    BY <1>6
  <2>2. Bytes(FirstBlock) \subseteq r.start..r.start + r.pages * PAGE - 1
    BY <1>2, <1>3, <2>1, BootAssumption DEF Bytes
  <2>3. Bytes(SecondBlock) \subseteq r.start..r.start + r.pages * PAGE - 1
    BY <1>2, <1>3, <2>1, BootAssumption DEF Bytes
  <2>4. QED
    BY <2>1, <2>2, <2>3, <1>4
<1>7. QED
  BY <1>1, <1>5, <1>6

(* main, its memory map, the blocks of my_malloc and the mouse keep their  *)
(* types: no more than three answers of the 8042 are ever due.             *)
THEOREM TypeCorrect == Spec => []TypeOK
BY BootInvariant, PTL DEF BootInv

(* my_malloc never hands a byte out twice, whatever the memory map holds.  *)
THEOREM NoByteTwice == Spec => []BlocksApart
BY BootInvariant, ApartBlocks, PTL

(* my_malloc hands out memory that is free in the firmware's own map: the  *)
(* key catches every change made after the map was read.                   *)
THEOREM OnlyFreeMemory == Spec => []BlocksFree
BY BootInvariant, FreeBlocks, PTL

(* When activate_mouse returns, the mouse reports, and handler_mouse finds *)
(* no more stray answers than scancodes have come.                         *)
THEOREM MouseIsReady == Spec => []MouseReady
<1>1. BootInv => MouseReady
  BY ReadyMouse DEF BootInv
<1>2. QED
  BY BootInvariant, <1>1, PTL
=============================================================================
