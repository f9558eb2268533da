------------------------------ MODULE LibcMem ------------------------------
(***************************************************************************)
(* The memory functions of libc/string (and memory_copy of kernel-c): one  *)
(* call at a time, one step per turn of its loop, over a memory of Size    *)
(* bytes.  memory_copy and memcpy are the same loop; memcpy's ranges are   *)
(* restrict, and memory_copy is called on ranges that do not overlap.      *)
(***************************************************************************)
EXTENDS Integers

CONSTANTS
  Size,       \* bytes of memory
  Values      \* values of a byte: numbers, 0 among them

ASSUME LibcMemAssumption == Size \in Nat /\ Values \subseteq Nat /\ 0 \in Values

VARIABLES
  fn,         \* the function that runs, "none" before and "returned" after it
  dst, src,   \* its pointers: a and b of memcmp, src only for strlen
  size,       \* its size argument
  value,      \* the value argument of memset, as the byte it is cast to
  i,          \* its loop counter
  mem,        \* memory now
  mem0,       \* history: the memory ...
  called,     \* ... and the function of the call
  result      \* what memcmp or strlen returned

memVars == <<fn, dst, src, size, value, i, mem, mem0, called, result>>
argVars == <<dst, src, size, value, mem0, called>>

Addresses == 0..Size - 1

MemInit ==
  /\ fn = "none" /\ called = "none" /\ result = 0 /\ i = 0
  /\ dst = 0 /\ src = 0 /\ size = 0 /\ value = 0
  /\ mem \in [Addresses -> Values] /\ mem0 = mem

-----------------------------------------------------------------------------
(* What a caller has to see to: ranges inside the memory, apart for        *)
(* memcpy, and a string that ends.  Arguments a routine does not take are  *)
(* 0.                                                                      *)
Allowed(f, d, s, n, v) ==
  /\ d + n <= Size /\ s + n <= Size
  /\ f = "memcpy" => d + n <= s \/ s + n <= d
  /\ f = "strlen" => (\E k \in s..Size - 1 : mem[k] = 0) /\ d = 0 /\ n = 0
  /\ f = "memset" => s = 0
  /\ f # "memset" => v = 0

(* A mutant: the pointers are tested the wrong way round. *)
AscendingSwapped(d, s) == s < d

(* The test of memmove: dst < src copies upwards. *)
Ascending(d, s) == d < s

CallMem(f, d, s, n, v) ==
  /\ fn = "none"
  /\ Allowed(f, d, s, n, v)
  /\ fn' = f /\ called' = f
  /\ dst' = d /\ src' = s /\ size' = n /\ value' = v
  /\ i' = (IF f = "memmove" /\ ~Ascending(d, s) THEN n ELSE 0)
  /\ UNCHANGED <<mem, mem0, result>>

Return(r) == fn' = "returned" /\ result' = r /\ UNCHANGED <<i, mem, argVars>>

Store(a, b) == mem' = [mem EXCEPT ![a] = b] /\ UNCHANGED <<fn, argVars, result>>

(* A turn of for (i = 0; i < size; i++) dst[i] = src[i]. *)
CopyUp == IF i < size THEN Store(dst + i, mem[src + i]) /\ i' = i + 1 ELSE Return(0)

(* A turn of for (i = size; i != 0; i--) dst[i-1] = src[i-1]. *)
CopyDown == IF i # 0 THEN Store(dst + i - 1, mem[src + i - 1]) /\ i' = i - 1 ELSE Return(0)

memcpy == fn = "memcpy" /\ CopyUp

memmove == fn = "memmove" /\ IF Ascending(dst, src) THEN CopyUp ELSE CopyDown

memset == /\ fn = "memset"
          /\ IF i < size THEN Store(dst + i, value) /\ i' = i + 1 ELSE Return(0)

memcmp ==
  /\ fn = "memcmp"
  /\ IF i < size /\ mem[dst + i] = mem[src + i]
     THEN i' = i + 1 /\ UNCHANGED <<fn, mem, argVars, result>>
     ELSE Return(IF i = size THEN 0 ELSE IF mem[dst + i] < mem[src + i] THEN -1 ELSE 1)

strlen ==
  /\ fn = "strlen"
  /\ IF mem[src + i] # 0
     THEN i' = i + 1 /\ UNCHANGED <<fn, mem, argVars, result>>
     ELSE Return(i)

Routines == {"memcpy", "memmove", "memset", "memcmp", "strlen"}

MemNext ==
  \/ \E f \in Routines, d, s \in Addresses, n \in 0..Size, v \in Values : CallMem(f, d, s, n, v)
  \/ memcpy \/ memmove \/ memset \/ memcmp \/ strlen

MemSpec == MemInit /\ [][MemNext]_memVars

-----------------------------------------------------------------------------
(* The memory a call leaves, from the memory it found. *)
Expected(a) ==
  IF a \notin dst..dst + size - 1 \/ called \in {"memcmp", "strlen"} THEN mem0[a]
  ELSE IF called = "memset" THEN value ELSE mem0[src + a - dst]

(* Index of the first byte in which the two ranges of memcmp differ. *)
FirstDifference(k) ==
  k \in 0..size - 1 /\ mem0[dst + k] # mem0[src + k]
  /\ \A j \in 0..k - 1 : mem0[dst + j] = mem0[src + j]

(* When a function returns, the memory is what C promises, bytes outside   *)
(* the destination included, however source and destination of memmove     *)
(* overlap; memcmp has the sign of the first difference, and strlen the    *)
(* distance to the first zero.                                             *)
LibcCorrect ==
  fn = "returned" =>
    /\ \A a \in Addresses : mem[a] = Expected(a)
    /\ called = "memcmp" =>
         /\ \A k \in 0..Size : FirstDifference(k) =>
              (result < 0 <=> mem0[dst + k] < mem0[src + k]) /\ result # 0
         /\ (\A k \in 0..size - 1 : mem0[dst + k] = mem0[src + k]) => result = 0
    /\ called = "strlen" =>
         mem0[src + result] = 0 /\ \A k \in 0..result - 1 : mem0[src + k] # 0
=============================================================================
