--------------------------- MODULE ProcessProofs ---------------------------
(***************************************************************************)
(* For every file, text and size of a read, whichever call fails and        *)
(* whenever SIGINT or a kill comes: the terminal is restored, the file is   *)
(* kept as SavePromise says, and a text that looks saved is read back.      *)
(***************************************************************************)
EXTENDS Process, Utf8Theorems, FiniteSetTheorems

(* What the terminal is, and what the editor remembers of it, from one step  *)
(* of enable_raw_mode to the next, in the loop and in editor_destroy.        *)
Untouched == pc \in {"signal", "load", "winsize", "getfl"} =>
  ShellTerminal /\ orig_termios = "zero" /\ stdin_flags = "zero"

FlagsKnown == pc \in {"setfl", "tcgetattr"} =>
  /\ termios = "shell" /\ screen = "main"
  /\ orig_termios = "zero" /\ stdin_flags = "shell"

Raw == {"tcsetattr", "modes", "poll", "keys", "write", "close", "resize",
        "destroy", "free"}

AllKnown == pc \in Raw =>
  stdin_tty = TRUE /\ orig_termios = "shell" /\ stdin_flags = "shell"

AfterDestroy == pc \in {"free", "exit"} => ShellTerminal

AfterFree == pc = "exit" => orig_termios = "freed"

AfterEnd == pc = "ended" /\ how \in {"die", "sigint"} /\ orig_termios = "shell"
              => ShellTerminal

TerminalInv ==
  /\ pc \in Steps \cup {"ended"}
  /\ Untouched /\ FlagsKnown /\ AllKnown
  /\ AfterDestroy /\ AfterFree /\ AfterEnd

(* disable_raw_mode gives back the settings that were saved.                 *)
LEMMA RestoresSaved ==
  ASSUME disable_raw_mode, stdin_tty = TRUE,
         orig_termios = "shell", stdin_flags = "shell"
  PROVE  ShellTerminal'
BY DEF disable_raw_mode, ShellTerminal

(* An end of the process between two steps, by die or a signal.              *)
LEMMA EndsRestored ==
  ASSUME TerminalInv, pc # "ended", disable_raw_mode, NEW h, End(h),
         UNCHANGED <<stdin_tty, stdout_tty, savedVars>>
  PROVE  TerminalInv'
<1>1. pc' = "ended"
  BY DEF End
<1>2. AfterEnd'
  <2>1. CASE pc \in Raw
    BY <2>1, RestoresSaved DEF TerminalInv, AllKnown, AfterEnd
  <2>2. CASE pc \notin Raw
    BY <2>2 DEF TerminalInv, Untouched, FlagsKnown, AfterFree, AfterEnd,
                Steps, Raw, savedVars
  <2> QED BY <2>1, <2>2
<1> QED BY <1>1, <1>2 DEF TerminalInv, Untouched, FlagsKnown, AllKnown, Raw,
                          AfterDestroy, AfterFree

(* A step of the editor that leaves the terminal alone.                      *)
LEMMA LoopStep ==
  ASSUME TerminalInv, pc \in Raw \ {"free"}, pc' \in Raw \ {"free"},
         UNCHANGED <<how, stdin_tty, ttyVars, savedVars>>
  PROVE  TerminalInv'
BY DEF TerminalInv, Untouched, FlagsKnown, AllKnown, AfterDestroy, AfterFree,
       AfterEnd, Raw, Steps, savedVars

LEMMA InitTerminal == Init => TerminalInv
BY DEF Init, TerminalInv, Untouched, FlagsKnown, AllKnown, Raw, AfterDestroy,
       AfterFree, AfterEnd, ShellTerminal

LEMMA StartKeepsTerminal ==
  ASSUME TerminalInv,
         \/ InstallHandlers \/ LoadFile \/ get_window_size("winsize", "getfl")
         \/ GetFlags \/ GetFlagsFails \/ SetFlags \/ SaveTermios \/ SetRaw
         \/ EnterScreen
  PROVE  TerminalInv'
<1> USE DEF Goto, Untouched, FlagsKnown, AllKnown, Raw, AfterDestroy, AfterFree,
            AfterEnd, ttyVars, savedVars, Steps, TerminalInv
<1>1. CASE InstallHandlers
  BY <1>1 DEF InstallHandlers, ShellTerminal
<1>2. CASE LoadFile
  BY <1>2 DEF LoadFile, ShellTerminal
<1>3. CASE get_window_size("winsize", "getfl")
  <2>1. CASE stdout_tty
    BY <1>3, <2>1 DEF get_window_size, ShellTerminal
  <2>2. CASE ~stdout_tty
    BY <1>3, <2>2, EndsRestored DEF get_window_size, die
  <2> QED BY <2>1, <2>2
<1>4. CASE GetFlags
  BY <1>4 DEF GetFlags, ShellTerminal
<1>5. CASE GetFlagsFails
  BY <1>5 DEF GetFlagsFails, End
<1>6. CASE SetFlags
  BY <1>6 DEF SetFlags
<1>7. CASE SaveTermios
  <2>1. CASE stdin_tty
    <3>1. stdin_tty = TRUE \/ stdin_tty # TRUE
      OBVIOUS
    <3> QED BY <1>7, <2>1 DEF SaveTermios
  <2>2. CASE ~stdin_tty
    BY <1>7, <2>2, EndsRestored DEF SaveTermios, die
  <2> QED BY <2>1, <2>2
<1>8. CASE SetRaw
  BY <1>8 DEF SetRaw
<1>9. CASE EnterScreen
  BY <1>9 DEF EnterScreen
<1> QED BY <1>1, <1>2, <1>3, <1>4, <1>5, <1>6, <1>7, <1>8, <1>9

LEMMA LoopKeepsTerminal ==
  ASSUME TerminalInv,
         \/ EditKey \/ OtherKey \/ ExitKey \/ EndOfBatch
         \/ get_window_size("resize", "poll")
         \/ SaveKey \/ SaveKeyFails \/ WriteCall \/ WriteFails \/ Close \/ Read
  PROVE  TerminalInv'
<1>1. CASE get_window_size("resize", "poll")
  <2>1. CASE stdout_tty
    BY <1>1, <2>1, LoopStep DEF get_window_size, Goto, Raw
  <2>2. CASE ~stdout_tty
    BY <1>1, <2>2, EndsRestored DEF get_window_size, die
  <2> QED BY <2>1, <2>2
<1>2. CASE EditKey \/ OtherKey \/ ExitKey \/ SaveKey \/ SaveKeyFails
  BY <1>2, LoopStep DEF EditKey, OtherKey, ExitKey, SaveKey, SaveKeyFails, Key,
                        Goto, Raw
<1>3. CASE EndOfBatch
  BY <1>3, LoopStep DEF EndOfBatch, Goto, Raw
<1>4. CASE WriteCall \/ WriteFails \/ Close
  BY <1>4, LoopStep DEF WriteCall, WriteFails, Close, Goto, Raw
<1>5. CASE Read
  BY <1>5, LoopStep DEF Read, Goto, Raw
<1> QED BY <1>1, <1>2, <1>3, <1>4, <1>5

LEMMA EndKeepsTerminal ==
  ASSUME TerminalInv,
         \/ Destroy \/ Free \/ ExitMain \/ CallFails \/ handle_sigint
         \/ Killed \/ Exec
  PROVE  TerminalInv'
<1>1. CASE Destroy
  <2>1. ShellTerminal'
    BY <1>1, RestoresSaved DEF Destroy, TerminalInv, AllKnown, Raw
  <2> QED BY <1>1, <2>1 DEF Destroy, Goto, TerminalInv, Untouched, FlagsKnown,
            AllKnown, Raw, AfterDestroy, AfterFree, AfterEnd, Steps, savedVars
<1>2. CASE Free
  BY <1>2 DEF Free, Goto, TerminalInv, Untouched, FlagsKnown, AllKnown, Raw,
              AfterDestroy, AfterFree, AfterEnd, Steps, ttyVars, ShellTerminal
<1>3. CASE ExitMain
  BY <1>3, EndsRestored DEF ExitMain
<1>4. CASE CallFails
  BY <1>4, EndsRestored DEF CallFails, die
<1>5. CASE handle_sigint
  BY <1>5, EndsRestored DEF handle_sigint
<1>6. CASE Killed
  BY <1>6 DEF Killed, End, TerminalInv, Untouched, FlagsKnown, AllKnown, Raw,
              AfterDestroy, AfterFree, AfterEnd
<1>7. CASE Exec
  BY <1>7 DEF Exec, TerminalInv, Untouched, FlagsKnown, AllKnown, Raw,
              AfterDestroy, AfterFree, AfterEnd, Steps, ShellTerminal
<1> QED BY <1>1, <1>2, <1>3, <1>4, <1>5, <1>6, <1>7

LEMMA NextTerminal == TerminalInv /\ [Next]_vars => TerminalInv'
<1> SUFFICES ASSUME TerminalInv, [Next]_vars PROVE TerminalInv'
  OBVIOUS
<1>1. CASE Next
  BY <1>1, StartKeepsTerminal, LoopKeepsTerminal, EndKeepsTerminal DEF Next, Step
<1>2. CASE UNCHANGED vars
  BY <1>2 DEF vars, ttyVars, savedVars, TerminalInv, Untouched, FlagsKnown,
              AllKnown, AfterDestroy, AfterFree, AfterEnd, ShellTerminal
<1> QED BY <1>1, <1>2

(* Once the terminal's settings have been saved, die, SIGINT between any two *)
(* calls, and editor_destroy leave the terminal as the shell had it.         *)
THEOREM AlwaysRestored == Spec => []TerminalRestored
<1>1. TerminalInv => TerminalRestored
  BY DEF TerminalInv, AfterDestroy, AfterEnd, TerminalRestored
<1> QED BY <1>1, InitTerminal, NextTerminal, PTL DEF Spec

-----------------------------------------------------------------------------
(* The bytes of a text.                                                      *)

(* The bytes of a text: at least a newline.                                  *)
LEMMA FileBytesType ==
  ASSUME NEW text \in Seq(Bytes), text # << >>
  PROVE  /\ FileBytes(text) \in Bytes
         /\ Len(FileBytes(text)) \in Nat \ {0}
<1> DEFINE seqs == [k \in DOMAIN text |-> Append(text[k], LF)]
<1>0. Len(text) \in Nat \ {0} /\ DOMAIN text = 1 .. Len(text)
  BY EmptySeq
<1>1. \A k \in DOMAIN text : /\ Append(text[k], LF) \in Bytes
                             /\ Len(Append(text[k], LF)) \in Nat \ {0}
  <2> TAKE k \in DOMAIN text
  <2>1. text[k] \in Bytes
    BY <1>0
  <2>2. /\ text[k] \in Seq(Byte \cup {LF, NUL})
        /\ LF \in Byte \cup {LF, NUL}
    BY <2>1 DEF Bytes
  <2>3. Len(text[k]) \in Nat
    BY <2>2
  <2> QED BY <2>2, <2>3, AppendProperties DEF Bytes
<1>2. seqs \in Seq(Bytes) /\ seqs # << >> /\ seqs[1] = Append(text[1], LF)
  BY <1>0, <1>1
<1>3. FileBytes(text) = FlattenSeq(seqs)
  BY DEF FileBytes
<1> HIDE DEF seqs
<1>4. /\ FlattenSeq(seqs) \in Bytes
      /\ Len(FlattenSeq(seqs)) >= Len(seqs[1])
  BY <1>2, FlattenType DEF Bytes
<1>5. Len(seqs[1]) \in Nat \ {0} /\ Len(FlattenSeq(seqs)) \in Nat
  <2>1. 1 \in DOMAIN text
    BY <1>0
  <2> QED BY <1>1, <1>2, <1>4, <2>1 DEF Bytes
<1> QED BY <1>3, <1>4, <1>5

-----------------------------------------------------------------------------
(* The text of a file.                                                       *)

(* A part of a file.                                                         *)
LEMMA PartType ==
  ASSUME NEW file \in Bytes, NEW m \in Nat \ {0}, NEW n \in Int, n <= Len(file)
  PROVE  SubSeq(file, m, n) \in Bytes
<1>1. \A i \in m .. n : file[i] \in Byte \cup {LF, NUL}
  BY DEF Bytes
<1>2. m \in Int
  OBVIOUS
<1> QED BY <1>1, <1>2, SubSeqProperties DEF Bytes

LEMMA LineEndsType ==
  ASSUME NEW file \in Bytes
  PROVE  \A k \in 0 .. Len(file) :
           /\ LineEnds(file)[k] \in 0 .. Len(file)
           /\ LineEnds(file)[k]
                = IF k = 0 THEN 0
                  ELSE Min({Len(file)} \cup
                             {i \in Newlines(file) : i > LineEnds(file)[k - 1]})
<1> DEFINE n == Len(file)
           Following(e) == Min({Len(file)} \cup {i \in Newlines(file) : i > e})
           Def(f) == f = [k \in 0 .. Len(file) |->
                            IF k = 0 THEN 0
                            ELSE Min({Len(file)} \cup
                                       {i \in Newlines(file) : i > f[k - 1]})]
           end == CHOOSE f : Def(f)
<1>0. n \in Nat /\ Newlines(file) \subseteq 1 .. n
  BY DEF Bytes, Newlines
<1>1. \A e \in 0 .. n : Following(e) \in 0 .. n
  <2> TAKE e \in 0 .. n
  <2> DEFINE T == {n} \cup {i \in Newlines(file) : i > e}
  <2>1. T \in SUBSET Nat /\ T # {} /\ T \subseteq 0 .. n
    BY <1>0
  <2>2. Following(e) = Min(T)
    OBVIOUS
  <2> HIDE DEF T
  <2>3. Min(T) \in T
    BY <2>1, MinNat
  <2> QED BY <2>1, <2>2, <2>3
<1>2. \E f : Def(f) /\ f \in [0 .. n -> 0 .. n]
  <2> DEFINE S == 0 .. n
             step == [p \in Nat \X S |-> Following(p[2])]
             zero == 0
  <2>1. n \in Nat /\ zero \in S /\ step \in [Nat \X S -> S]
    <3> HIDE DEF Following
    <3> QED BY <1>0, <1>1
  <2>2. \A k \in 1 .. n : \A e \in S : step[<<k, e>>] = Following(e)
    <3> HIDE DEF Following
    <3> QED BY <1>0
  <2> HIDE DEF n, S, step, zero
  <2>3. PICK g : IsSteps(g, S, n, zero, step)
    BY <2>1, StepsExist
  <2>4. /\ g \in [0 .. n -> 0 .. n] /\ g[0] = 0
        /\ \A k \in 1 .. n : g[k] = step[<<k, g[k - 1]>>]
    BY <2>3 DEF IsSteps, S, zero
  <2>5. \A k \in 1 .. n : g[k] = Following(g[k - 1])
    <3> TAKE k \in 1 .. n
    <3>1. k - 1 \in 0 .. n
      BY <2>1
    <3>2. g[k - 1] \in S
      BY <2>4, <3>1 DEF S
    <3> HIDE DEF Following
    <3> QED BY <2>2, <2>4, <3>2
  <2>6. \A k \in 0 .. n : g[k] = IF k = 0 THEN 0 ELSE Following(g[k - 1])
    <3> HIDE DEF Following
    <3> QED BY <2>1, <2>4, <2>5
  <2>7. Def(g)
    BY <2>4, <2>6 DEF n
  <2> QED BY <2>4, <2>7
<1>3. LineEnds(file) = end
  BY DEF LineEnds
<1>4. Def(end)
  <2> HIDE DEF Def
  <2> QED BY <1>2
<1> HIDE DEF end
<1>5. \A k \in 0 .. n : end[k] = IF k = 0 THEN 0 ELSE Following(end[k - 1])
  BY <1>4
<1> HIDE DEF Def, Following
<1> DEFINE T == {k \in Nat : k <= n => end[k] \in 0 .. n}
<1>6. 0 \in T
  BY <1>0, <1>5
<1>7. ASSUME NEW k \in T PROVE k + 1 \in T
  <2> HIDE DEF n
  <2> SUFFICES ASSUME k + 1 <= n PROVE end[k + 1] \in 0 .. n
    OBVIOUS
  <2>1. k \in 0 .. n /\ k + 1 \in 0 .. n /\ k + 1 # 0 /\ (k + 1) - 1 = k
    BY <1>0
  <2>2. end[k] \in 0 .. n
    BY <2>1
  <2>3. end[k + 1] = Following(end[k])
    BY <1>5, <2>1
  <2> QED BY <1>1, <2>2, <2>3
<1>8. \A k \in Nat : k \in T
  <2>1. T \in SUBSET Nat
    OBVIOUS
  <2> HIDE DEF T
  <2> QED BY <1>6, <1>7, <2>1, SetInduction
<1>9. \A k \in 0 .. n : end[k] \in 0 .. n
  BY <1>0, <1>8
<1> HIDE DEF T
<1> QED BY <1>3, <1>5, <1>9 DEF Following

LEMMA GetlineType ==
  ASSUME NEW file \in Bytes, file # << >>
  PROVE  /\ getline(file) \in Seq(Bytes) /\ getline(file) # << >>
         /\ Len(getline(file)) <= Len(file)
<1> DEFINE ends == Newlines(file) \cup {Len(file)}
           n == Cardinality(ends)
           from(k) == LineEnds(file)[k - 1] + 1
           to(k) == LineEnds(file)[k]
<1>0. Len(file) \in Nat \ {0} /\ Newlines(file) \subseteq 1 .. Len(file)
  BY EmptySeq DEF Bytes, Newlines
<1>1. n \in Nat \ {0} /\ n <= Len(file)
  <2>1. IsFiniteSet(1 .. Len(file)) /\ Cardinality(1 .. Len(file)) = Len(file)
    BY <1>0, FS_Interval
  <2>2. ends \in SUBSET (1 .. Len(file)) /\ ends # {}
    BY <1>0
  <2> HIDE DEF ends
  <2>3. IsFiniteSet(ends) /\ n <= Len(file)
    BY <2>1, <2>2, FS_Subset
  <2>4. n \in Nat /\ n # 0
    BY <2>2, <2>3, FS_CardinalityType, FS_EmptySet
  <2> QED BY <2>3, <2>4
<1>2. getline(file) = [k \in 1 .. n |-> SubSeq(file, from(k), to(k))]
  BY DEF getline
<1> HIDE DEF n
<1>3. \A k \in 1 .. n : SubSeq(file, from(k), to(k)) \in Bytes
  <2> TAKE k \in 1 .. n
  <2>1. k \in 0 .. Len(file) /\ k - 1 \in 0 .. Len(file)
    BY <1>0, <1>1
  <2>2. /\ LineEnds(file)[k] \in 0 .. Len(file)
        /\ LineEnds(file)[k - 1] \in 0 .. Len(file)
    BY <2>1, LineEndsType
  <2>3. from(k) \in Nat \ {0} /\ to(k) \in Int /\ to(k) <= Len(file)
    BY <1>0, <2>2
  <2> HIDE DEF from, to
  <2> QED BY <2>3, PartType
<1> HIDE DEF from, to
<1>4. getline(file) \in Seq(Bytes) /\ Len(getline(file)) = n
  BY <1>1, <1>2, <1>3
<1> QED BY <1>1, <1>4

LEMMA StripEndType ==
  ASSUME NEW s \in Bytes
  PROVE  StripEnd(s) \in Bytes
<1> DEFINE T == {0} \cup {i \in DOMAIN s : s[i] \notin {LF, CR}}
<1>1. Len(s) \in Nat /\ T \in SUBSET (0 .. Len(s)) /\ T # {}
  BY DEF Bytes
<1>2. StripEnd(s) = SubSeq(s, 1, Max(T))
  BY DEF StripEnd
<1> HIDE DEF T
<1>3. Max(T) \in 0 .. Len(s)
  BY <1>1, MaxBelow
<1>4. Max(T) \in Int /\ Max(T) <= Len(s)
  BY <1>1, <1>3
<1> QED BY <1>2, <1>4, PartType

LEMMA StrdupType ==
  ASSUME NEW s \in Bytes
  PROVE  strdup(s) \in Bytes
<1> DEFINE T == {Len(s)} \cup {i - 1 : i \in {j \in DOMAIN s : s[j] = NUL}}
<1>1. Len(s) \in Nat /\ T \in SUBSET Nat /\ T # {} /\ Len(s) \in T
  BY DEF Bytes
<1>2. strdup(s) = SubSeq(s, 1, Min(T))
  BY DEF strdup
<1> HIDE DEF T
<1>3. Min(T) \in Nat /\ Min(T) <= Len(s)
  BY <1>1, MinNat
<1> QED BY <1>2, <1>3, PartType

LEMMA LoadType ==
  ASSUME NEW file \in Bytes \cup {Absent}
  PROVE  /\ buffer_load_file(file) \in Seq(Bytes)
         /\ buffer_load_file(file) # << >>
<1>1. CASE file \in {Absent, << >>}
  <2>1. << >> \in Bytes
    BY DEF Bytes
  <2>2. buffer_load_file(file) = << << >> >>
    BY <1>1 DEF buffer_load_file
  <2> QED BY <2>1, <2>2
<1>2. CASE file \notin {Absent, << >>}
  <2> DEFINE got == getline(file)
  <2>1. got \in Seq(Bytes) /\ got # << >>
    BY <1>2, GetlineType
  <2>2. buffer_load_file(file) = [k \in DOMAIN got |-> strdup(StripEnd(got[k]))]
    BY <1>2 DEF buffer_load_file
  <2> HIDE DEF got
  <2>3. DOMAIN got = 1 .. Len(got) /\ Len(got) \in Nat \ {0}
    BY <2>1, EmptySeq
  <2>4. \A k \in 1 .. Len(got) : strdup(StripEnd(got[k])) \in Bytes
    BY <2>1, StripEndType, StrdupType
  <2> QED BY <2>2, <2>3, <2>4
<1> QED BY <1>1, <1>2

-----------------------------------------------------------------------------
(* What is written is read back.                                             *)

(* The bytes of a text, and where each line of it ends.                      *)
Placed(text, p) ==
  /\ p \in [0 .. Len(text) -> Nat]
  /\ p[0] = 0 /\ p[Len(text)] = Len(FileBytes(text))
  /\ \A k \in 1 .. Len(text) :
       /\ p[k - 1] \in Nat /\ p[k] = p[k - 1] + Len(text[k]) + 1
       /\ p[k] \in 1 .. Len(FileBytes(text))
       /\ \A i \in 1 .. Len(text[k]) : FileBytes(text)[p[k - 1] + i] = text[k][i]
       /\ FileBytes(text)[p[k]] = LF

LEMMA TextPlaced ==
  ASSUME NEW text \in Seq(Line), text # << >>
  PROVE  FileBytes(text) \in Bytes /\ \E p : Placed(text, p)
<1> DEFINE seqs == [k \in DOMAIN text |-> Append(text[k], LF)]
           file == FileBytes(text)
<1>0. Len(text) \in Nat \ {0} /\ DOMAIN text = 1 .. Len(text)
  BY EmptySeq
<1>1. \A k \in 1 .. Len(text) :
        /\ text[k] \in Line /\ Len(text[k]) \in Nat
        /\ seqs[k] \in Bytes /\ Len(seqs[k]) = Len(text[k]) + 1
        /\ \A i \in 1 .. Len(text[k]) : seqs[k][i] = text[k][i]
        /\ seqs[k][Len(text[k]) + 1] = LF
  <2> TAKE k \in 1 .. Len(text)
  <2>1. text[k] \in Line
    BY <1>0
  <2> DEFINE s == text[k]
             S == Byte \cup {LF, NUL}
  <2>2. s \in Seq(S) /\ LF \in S
    BY <2>1 DEF Line
  <2> HIDE DEF s, S
  <2>3. /\ Append(s, LF) \in Seq(S)
        /\ Len(Append(s, LF)) = Len(s) + 1
        /\ \A i \in 1 .. Len(s) : Append(s, LF)[i] = s[i]
        /\ Append(s, LF)[Len(s) + 1] = LF
    BY <2>2, AppendProperties
  <2>4. seqs[k] = Append(s, LF)
    BY <1>0 DEF s
  <2>5. Len(s) \in Nat
    BY <2>2
  <2> HIDE DEF seqs
  <2> QED BY <2>1, <2>3, <2>4, <2>5 DEF s, S, Bytes
<1>2. seqs \in Seq(Bytes) /\ seqs # << >> /\ Len(seqs) = Len(text)
  BY <1>0, <1>1
<1>3. file = FlattenSeq(seqs)
  BY DEF FileBytes
<1> HIDE DEF seqs, file
<1> DEFINE S == Byte \cup {LF, NUL}
<1>10. seqs \in Seq(Seq(S)) /\ Bytes = Seq(S)
  BY <1>2 DEF Bytes
<1> HIDE DEF S
<1>11. FlattenSeq(seqs) \in Seq(S) /\ \E p : Parted(seqs, p)
  BY <1>2, <1>10, FlattenParts
<1>12. PICK p : Parted(seqs, p)
  BY <1>11
<1>4. /\ file \in Seq(S)
      /\ p[0] = 0 /\ p[Len(seqs)] = Len(file)
      /\ \A k \in 1 .. Len(seqs) : p[k] = p[k - 1] + Len(seqs[k])
      /\ \A k \in 1 .. Len(seqs) : p[k] <= p[Len(seqs)]
      /\ \A k \in 1 .. Len(seqs) : \A i \in 1 .. Len(seqs[k]) :
           file[p[k - 1] + i] = seqs[k][i]
  BY <1>3, <1>11, <1>12 DEF Parted
<1>5. ASSUME NEW k \in 1 .. Len(text)
      PROVE  /\ p[k - 1] \in Nat /\ p[k] = p[k - 1] + Len(text[k]) + 1
             /\ p[k] \in 1 .. Len(file)
             /\ \A i \in 1 .. Len(text[k]) : file[p[k - 1] + i] = text[k][i]
             /\ file[p[k]] = LF
  <2>1. k - 1 \in 0 .. Len(text)
    BY <1>0
  <2>2. p[k - 1] \in Nat /\ Len(text[k]) \in Nat
    BY <1>1, <1>2, <1>12, <2>1 DEF Parted
  <2>3. p[k] = p[k - 1] + (Len(text[k]) + 1) /\ p[k] <= Len(file)
    BY <1>1, <1>2, <1>4
  <2>4. p[k] = p[k - 1] + Len(text[k]) + 1 /\ p[k] \in 1 .. Len(file)
    <3>1. Len(file) \in Nat
      BY <1>4
    <3> QED BY <2>2, <2>3, <3>1
  <2>5. \A i \in 1 .. (Len(text[k]) + 1) : file[p[k - 1] + i] = seqs[k][i]
    BY <1>1, <1>2, <1>4
  <2>6. file[p[k]] = LF
    <3>1. Len(text[k]) + 1 \in 1 .. (Len(text[k]) + 1)
      BY <2>2
    <3>2. file[p[k - 1] + (Len(text[k]) + 1)] = seqs[k][Len(text[k]) + 1]
      BY <2>5, <3>1
    <3>3. seqs[k][Len(text[k]) + 1] = LF
      BY <1>1
    <3> QED BY <2>3, <3>2, <3>3, Zenon
  <2>7. ASSUME NEW i \in 1 .. Len(text[k])
        PROVE  file[p[k - 1] + i] = text[k][i]
    <3>1. i \in 1 .. (Len(text[k]) + 1)
      BY <2>2
    <3>2. file[p[k - 1] + i] = seqs[k][i]
      BY <2>5, <3>1
    <3> QED BY <1>1, <3>2
  <2> QED BY <2>2, <2>4, <2>6, <2>7
<1>6. Placed(text, p)
  <2>1. p \in [0 .. Len(text) -> Nat]
    BY <1>2, <1>12 DEF Parted
  <2> QED BY <1>2, <1>4, <1>5, <2>1 DEF Placed, file
<1> QED BY <1>4, <1>6, <1>10 DEF file

(* The ends grow from line to line.                                          *)
LEMMA PlacesGrow ==
  ASSUME NEW text \in Seq(Line), text # << >>, NEW p, Placed(text, p),
         NEW j \in 0 .. Len(text), NEW k \in 0 .. Len(text), j < k
  PROVE  p[j] < p[k]
<1>0. Len(text) \in Nat
  OBVIOUS
<1> DEFINE T == {m \in Nat : j + (m + 1) <= Len(text) => p[j] < p[j + (m + 1)]}
<1>1. \A m \in 1 .. Len(text) : /\ p[m - 1] \in Nat /\ p[m] \in Nat
                                 /\ p[m - 1] < p[m]
  <2> TAKE m \in 1 .. Len(text)
  <2>1. /\ p[m - 1] \in Nat /\ p[m] \in Nat
        /\ p[m] = p[m - 1] + Len(text[m]) + 1
    BY DEF Placed
  <2>2. Len(text[m]) \in Nat
    BY DEF Line
  <2> QED BY <2>1, <2>2
<1>2. 0 \in T
  <2> SUFFICES ASSUME j + 1 <= Len(text) PROVE p[j] < p[j + 1]
    OBVIOUS
  <2>1. j + 1 \in 1 .. Len(text) /\ (j + 1) - 1 = j
    BY <1>0
  <2> QED BY <1>1, <2>1
<1>3. ASSUME NEW m \in T PROVE m + 1 \in T
  <2> SUFFICES ASSUME j + ((m + 1) + 1) <= Len(text)
               PROVE  p[j] < p[j + ((m + 1) + 1)]
    OBVIOUS
  <2> DEFINE a == j + (m + 1)
             b == j + ((m + 1) + 1)
  <2>1. b \in 1 .. Len(text) /\ b - 1 = a /\ a \in 1 .. Len(text) /\ a <= Len(text)
    BY <1>0
  <2>2. p[j] < p[a]
    BY <2>1
  <2>3. j = 0 \/ j \in 1 .. Len(text)
    BY <1>0
  <2>4. p[j] \in Nat
    BY <1>1, <2>3 DEF Placed
  <2> HIDE DEF a, b
  <2>5. p[a] < p[b] /\ p[a] \in Nat /\ p[b] \in Nat
    BY <1>1, <2>1
  <2>6. p[j] < p[b]
    BY <2>2, <2>4, <2>5
  <2> QED BY <2>6 DEF b
<1>4. (k - j) - 1 \in Nat /\ j + (((k - j) - 1) + 1) = k
  OBVIOUS
<1>5. (k - j) - 1 \in T
  <2>1. T \in SUBSET Nat
    OBVIOUS
  <2> HIDE DEF T
  <2> QED BY <1>2, <1>3, <1>4, <2>1, SetInduction
<1> QED BY <1>4, <1>5

(* The newlines of a text's file are at the ends of its lines.               *)
LEMMA NewlinesPlaced ==
  ASSUME NEW text \in Seq(Line), text # << >>, NEW p, Placed(text, p)
  PROVE  Newlines(FileBytes(text)) = {p[k] : k \in 1 .. Len(text)}
<1> DEFINE file == FileBytes(text)
           n == Len(text)
<1>0. /\ n \in Nat \ {0} /\ file \in Bytes
      /\ Len(file) \in Nat /\ DOMAIN file = 1 .. Len(file)
  BY EmptySeq, TextPlaced DEF Bytes
<1> HIDE DEF file, n
<1>1. ASSUME NEW k \in 1 .. n PROVE p[k] \in Newlines(file)
  BY <1>0 DEF Newlines, Placed, file, n
<1>2. ASSUME NEW i \in Newlines(file) PROVE \E k \in 1 .. n : i = p[k]
  <2>1. i \in 1 .. Len(file) /\ file[i] = LF
    BY <1>0 DEF Newlines
  <2> DEFINE T == {k \in 0 .. n : i <= p[k]}
             k == Min(T)
  <2>2. n \in T
    BY <1>0, <2>1 DEF Placed, file, n
  <2>3. T \in SUBSET Nat /\ T # {}
    BY <2>2
  <2>4. k \in T /\ \A y \in T : k <= y
    <3> HIDE DEF T
    <3> QED BY <2>3, MinNat
  <2> HIDE DEF k
  <2>5. k \in 0 .. n /\ i <= p[k] /\ k # 0
    <3>1. p[0] = 0
      BY DEF Placed
    <3>2. k \in 0 .. n /\ i <= p[k]
      BY <2>4
    <3>3. ~(i <= 0)
      BY <1>0, <2>1
    <3> QED BY <3>1, <3>2, <3>3
  <2>6. k \in 1 .. n /\ k - 1 \in 0 .. n /\ ~(k <= k - 1)
    BY <1>0, <2>5
  <2>7. ~(i <= p[k - 1])
    BY <2>4, <2>6
  <2>8. /\ p[k - 1] \in Nat /\ p[k] = p[k - 1] + Len(text[k]) + 1
        /\ \A q \in 1 .. Len(text[k]) : file[p[k - 1] + q] = text[k][q]
    BY <2>6 DEF Placed, file, n
  <2>9. text[k] \in Line /\ Len(text[k]) \in Nat
    BY <2>6 DEF n, Line
  <2> DEFINE q == i - p[k - 1]
  <2>10. q \in 1 .. (Len(text[k]) + 1) /\ i = p[k - 1] + q
    BY <2>1, <2>5, <2>7, <2>8, <2>9
  <2> HIDE DEF q
  <2>11. q \notin 1 .. Len(text[k])
    <3> SUFFICES ASSUME q \in 1 .. Len(text[k]) PROVE FALSE
      OBVIOUS
    <3>1. text[k][q] = LF
      BY <2>1, <2>8, <2>10
    <3>2. text[k][q] \in Byte
      BY <2>9 DEF Line
    <3> QED BY <3>1, <3>2, StorageConstants
  <2>12. i = p[k]
    <3> DEFINE l == Len(text[k])
               b == p[k - 1]
    <3>1. l \in Nat /\ b \in Nat /\ q \in 1 .. (l + 1) /\ q \notin 1 .. l /\ i = b + q
      BY <2>8, <2>9, <2>10, <2>11
    <3>2. p[k] = b + l + 1
      BY <2>8
    <3> HIDE DEF l, b
    <3> QED BY <3>1, <3>2
  <2> QED BY <2>6, <2>12
<1>3. Newlines(file) = {p[k] : k \in 1 .. n}
  BY <1>1, <1>2
<1> QED BY <1>3 DEF file, n


(* getline gives back the lines of a text, each with its newline.            *)
LEMMA LinesOfText ==
  ASSUME NEW text \in Seq(Line), text # << >>
  PROVE  getline(FileBytes(text)) = [k \in 1 .. Len(text) |-> Append(text[k], LF)]
<1> DEFINE file == FileBytes(text)
           n == Len(text)
<1>0. /\ n \in Nat \ {0} /\ file \in Bytes
      /\ Len(file) \in Nat
  BY EmptySeq, TextPlaced DEF Bytes
<1>1. PICK p : Placed(text, p)
  BY TextPlaced
<1>2. Newlines(file) = {p[k] : k \in 1 .. n}
  BY <1>1, NewlinesPlaced
<1>3. \A j \in 0 .. n : \A k \in 0 .. n : j < k => p[j] < p[k]
  BY <1>1, PlacesGrow
<1>4. /\ p \in [0 .. n -> Nat] /\ p[0] = 0 /\ p[n] = Len(file)
      /\ \A k \in 1 .. n :
           /\ p[k] = p[k - 1] + Len(text[k]) + 1
           /\ p[k] \in 1 .. Len(file)
           /\ \A i \in 1 .. Len(text[k]) : file[p[k - 1] + i] = text[k][i]
           /\ file[p[k]] = LF
  BY <1>1 DEF Placed
<1>5. \A k \in 1 .. n : text[k] \in Line
  OBVIOUS
<1> HIDE DEF file, n
<1> DEFINE ends == Newlines(file) \cup {Len(file)}
<1>6. ends = {p[k] : k \in 1 .. n}
  <2>1. n \in 1 .. n
    BY <1>0
  <2> QED BY <1>2, <1>4, <2>1
<1>7. Cardinality(ends) = n
  <2> DEFINE f == [k \in 1 .. n |-> p[k]]
  <2>1. f \in [1 .. n -> ends]
    BY <1>6
  <2>2. \A e \in ends : \E k \in 1 .. n : f[k] = e
    BY <1>6
  <2>3. ASSUME NEW j \in 1 .. n, NEW k \in 1 .. n, f[j] = f[k] PROVE j = k
    <3>1. p[j] = p[k] /\ j \in 0 .. n /\ k \in 0 .. n /\ p[j] \in Nat /\ p[k] \in Nat
      BY <1>0, <1>4, <2>3
    <3>2. ~(p[j] < p[k]) /\ ~(p[k] < p[j])
      BY <3>1
    <3>3. ~(j < k) /\ ~(k < j)
      BY <1>3, <3>1, <3>2
    <3> QED BY <3>1, <3>3
  <2> HIDE DEF f, ends
  <2>4. f \in Bijection(1 .. n, ends)
    BY <2>1, <2>2, <2>3 DEF Bijection, Injection, Surjection, IsInjective
  <2>5. ExistsBijection(1 .. n, ends)
    BY <2>4 DEF ExistsBijection
  <2> QED BY <1>0, <2>5, FS_CountingElements
<1>8. n <= Len(file)
  <2>1. IsFiniteSet(1 .. Len(file)) /\ Cardinality(1 .. Len(file)) = Len(file)
    <3> DEFINE z == Len(file)
    <3>1. z \in Nat \ {0}
      <4>1. n \in 1 .. n
        BY <1>0
      <4> QED BY <1>0, <1>4, <4>1
    <3> HIDE DEF z
    <3>2. IsFiniteSet(1 .. z) /\ Cardinality(1 .. z) = z
      BY <3>1, FS_Interval
    <3> QED BY <3>2 DEF z
  <2>2. ends \in SUBSET (1 .. Len(file))
    BY <1>4, <1>6
  <2> HIDE DEF ends
  <2> QED BY <1>7, <2>1, <2>2, FS_Subset
<1>9. ASSUME NEW k \in 0 .. n PROVE LineEnds(file)[k] = p[k]
  <2> DEFINE T == {m \in Nat : m <= n => LineEnds(file)[m] = p[m]}
  <2>1. 0 \in T
    <3>1. 0 \in 0 .. Len(file)
      BY <1>0
    <3>2. LineEnds(file)[0] = 0
      BY <1>0, <3>1, LineEndsType
    <3> QED BY <1>4, <3>2
  <2>2. ASSUME NEW m \in T PROVE m + 1 \in T
    <3> SUFFICES ASSUME m + 1 <= n PROVE LineEnds(file)[m + 1] = p[m + 1]
      OBVIOUS
    <3>1. /\ m \in Nat /\ m + 1 \in 1 .. n /\ m \in 0 .. n /\ m + 1 \in 0 .. n
          /\ m + 1 \in 0 .. Len(file) /\ m + 1 # 0 /\ (m + 1) - 1 = m
      BY <1>0, <1>8
    <3>2. LineEnds(file)[m] = p[m]
      BY <3>1
    <3> DEFINE N == {Len(file)} \cup {i \in Newlines(file) : i > p[m]}
    <3>3. LineEnds(file)[m + 1] = Min(N)
      BY <1>0, <3>1, <3>2, LineEndsType
    <3>4. N \in SUBSET Nat /\ N # {}
      BY <1>0, <1>2, <1>4
    <3>5. p[m + 1] \in N
      BY <1>2, <1>3, <1>4, <3>1
    <3>6. ASSUME NEW y \in N PROVE p[m + 1] <= y
      <4>1. y \in ends /\ (y > p[m] \/ y = Len(file))
        OBVIOUS
      <4>2. PICK q \in 1 .. n : y = p[q]
        BY <1>6, <4>1
      <4>3. CASE q <= m
        <5>1. q = m \/ p[q] < p[m]
          BY <1>0, <1>3, <3>1, <4>3
        <5>2. m < n /\ m \in 0 .. n /\ n \in 0 .. n
          BY <1>0, <3>1
        <5>3. p[m] < p[n] /\ p[m] \in Nat /\ p[n] \in Nat /\ p[q] \in Nat
          BY <1>3, <1>4, <5>2
        <5> QED BY <1>4, <4>1, <4>2, <5>1, <5>3
      <4>4. CASE q > m
        <5>1. q = m + 1 \/ m + 1 < q
          BY <3>1, <4>4
        <5>2. q \in 0 .. n /\ p[q] \in Nat /\ p[m + 1] \in Nat
          BY <1>4, <3>1
        <5>3. q = m + 1 \/ p[m + 1] < p[q]
          BY <1>3, <3>1, <5>1, <5>2
        <5> QED BY <4>2, <5>2, <5>3
      <4> QED BY <3>1, <4>3, <4>4
    <3> HIDE DEF N
    <3>7. Min(N) \in N /\ \A y \in N : Min(N) <= y
      BY <3>4, MinNat
    <3>8. Min(N) \in Nat /\ p[m + 1] \in Nat
      BY <3>4, <3>5, <3>7
    <3>9. Min(N) <= p[m + 1] /\ p[m + 1] <= Min(N)
      BY <3>5, <3>6, <3>7
    <3> QED BY <3>3, <3>8, <3>9
  <2>3. T \in SUBSET Nat
    OBVIOUS
  <2>4. \A m \in Nat : m \in T
    <3> HIDE DEF T
    <3> QED BY <2>1, <2>2, <2>3, SetInduction
  <2> QED BY <1>0, <2>4
<1>10. ASSUME NEW k \in 1 .. n
       PROVE  SubSeq(file, LineEnds(file)[k - 1] + 1, LineEnds(file)[k])
                = Append(text[k], LF)
  <2> DEFINE b == p[k - 1]
             l == Len(text[k])
             s == SubSeq(file, b + 1, p[k])
             t == Append(text[k], LF)
             S == Byte \cup {LF, NUL}
  <2>1. k - 1 \in 0 .. n /\ k \in 0 .. n
    BY <1>0
  <2>2. LineEnds(file)[k - 1] = b /\ LineEnds(file)[k] = p[k]
    BY <1>9, <2>1
  <2>3. /\ b \in Nat /\ l \in Nat /\ p[k] = b + l + 1 /\ p[k] \in 1 .. Len(file)
        /\ text[k] \in Seq(S) /\ LF \in S /\ file \in Seq(S)
    <3>1. text[k] \in Line /\ l \in Nat
      BY <1>5 DEF Line
    <3>2. text[k] \in Seq(S) /\ LF \in S /\ file \in Seq(S)
      BY <1>0, <3>1 DEF Line, Bytes
    <3>3. b \in Nat /\ p[k] = b + l + 1 /\ p[k] \in 1 .. Len(file)
      BY <1>4, <2>1
    <3> QED BY <3>1, <3>2, <3>3
  <2>4. /\ \A i \in 1 .. l : file[b + i] = text[k][i]
        /\ file[b + (l + 1)] = LF
    <3>1. b + (l + 1) = p[k]
      BY <2>3
    <3> QED BY <1>4, <3>1
  <2> HIDE DEF b, S
  <2>5. t \in Seq(S) /\ Len(t) = l + 1 /\ t[l + 1] = LF /\ \A i \in 1 .. l : t[i] = text[k][i]
    BY <2>3, AppendProperties
  <2> HIDE DEF l, t
  <2>6. /\ s \in Seq(S) /\ Len(s) = l + 1
        /\ \A i \in 1 .. (l + 1) : s[i] = file[b + i]
    <3> DEFINE e == p[k]
    <3>1. \A i \in (b + 1) .. e : file[i] \in S
      BY <2>3
    <3>2. b + 1 \in Int /\ e \in Int /\ b + 1 <= e /\ e - (b + 1) + 1 = l + 1
      BY <2>3
    <3> HIDE DEF e
    <3>3. /\ SubSeq(file, b + 1, e) \in Seq(S)
          /\ Len(SubSeq(file, b + 1, e)) = e - (b + 1) + 1
          /\ \A i \in 1 .. (e - (b + 1) + 1) :
               SubSeq(file, b + 1, e)[i] = file[b + 1 + i - 1]
      BY <3>1, <3>2, SubSeqProperties
    <3>4. \A i \in 1 .. (l + 1) : b + 1 + i - 1 = b + i
      BY <2>3
    <3> QED BY <3>2, <3>3, <3>4 DEF e
  <2> HIDE DEF s
  <2>7. \A i \in 1 .. Len(s) : s[i] = t[i]
    <3> TAKE i \in 1 .. Len(s)
    <3>1. i \in 1 .. l \/ i = l + 1
      BY <2>3, <2>6
    <3>2. CASE i \in 1 .. l
      BY <2>4, <2>5, <2>6, <3>2
    <3>3. CASE i = l + 1
      BY <2>4, <2>5, <2>6, <3>3
    <3> QED BY <3>1, <3>2, <3>3
  <2>8. s = t
    BY <2>5, <2>6, <2>7, SeqEqual
  <2> QED BY <2>2, <2>8 DEF s, t
<1>11. getline(file) = [k \in 1 .. n |-> SubSeq(file, LineEnds(file)[k - 1] + 1, LineEnds(file)[k])]
  BY <1>7 DEF getline
<1> QED BY <1>10, <1>11 DEF file, n


(* Reading strips what ends a line, and it does so once.                     *)
LEMMA StripEndOf ==
  ASSUME NEW s \in Bytes
  PROVE  \E m \in 0 .. Len(s) :
           /\ StripEnd(s) = SubSeq(s, 1, m)
           /\ m = 0 \/ s[m] \notin {LF, CR}
           /\ \A i \in (m + 1) .. Len(s) : s[i] \in {LF, CR}
<1> DEFINE T == {0} \cup {i \in DOMAIN s : s[i] \notin {LF, CR}}
           m == Max(T)
<1>1. Len(s) \in Nat /\ T \in SUBSET (0 .. Len(s)) /\ T # {} /\ DOMAIN s = 1 .. Len(s)
  BY DEF Bytes
<1>2. StripEnd(s) = SubSeq(s, 1, m)
  BY DEF StripEnd
<1>3. m \in T /\ \A y \in T : m >= y
  <2> HIDE DEF T
  <2> QED BY <1>1, MaxBelow
<1> HIDE DEF m
<1>4. m \in 0 .. Len(s) /\ (m = 0 \/ s[m] \notin {LF, CR})
  BY <1>1, <1>3
<1>5. ASSUME NEW i \in (m + 1) .. Len(s) PROVE s[i] \in {LF, CR}
  <2>1. i \in 1 .. Len(s) /\ ~(m >= i)
    BY <1>1, <1>4
  <2>2. i \notin T
    BY <1>3, <2>1
  <2> QED BY <1>1, <2>1, <2>2
<1> QED BY <1>2, <1>4, <1>5

(* Where the last byte that is kept is, the strip ends.                      *)
LEMMA StripEndAt ==
  ASSUME NEW s \in Bytes, NEW m \in 0 .. Len(s),
         m = 0 \/ s[m] \notin {LF, CR},
         \A i \in (m + 1) .. Len(s) : s[i] \in {LF, CR}
  PROVE  StripEnd(s) = SubSeq(s, 1, m)
<1>1. PICK n \in 0 .. Len(s) :
        /\ StripEnd(s) = SubSeq(s, 1, n)
        /\ n = 0 \/ s[n] \notin {LF, CR}
        /\ \A i \in (n + 1) .. Len(s) : s[i] \in {LF, CR}
  BY StripEndOf
<1>2. Len(s) \in Nat
  BY DEF Bytes
<1>3. ~(n < m)
  <2> SUFFICES ASSUME n < m PROVE FALSE
    OBVIOUS
  <2>1. m \in (n + 1) .. Len(s) /\ m # 0
    BY <1>2
  <2> QED BY <1>1, <2>1
<1>4. ~(m < n)
  <2> SUFFICES ASSUME m < n PROVE FALSE
    OBVIOUS
  <2>1. n \in (m + 1) .. Len(s) /\ n # 0
    BY <1>2
  <2> QED BY <1>1, <2>1
<1>5. m = n
  BY <1>2, <1>3, <1>4
<1> QED BY <1>1, <1>5

(* The first bytes of a file, or of a line.                                  *)
LEMMA FirstOf ==
  ASSUME NEW S, NEW s \in Seq(S), NEW m \in 0 .. Len(s)
  PROVE  /\ SubSeq(s, 1, m) \in Seq(S)
         /\ Len(SubSeq(s, 1, m)) = m
         /\ \A i \in 1 .. m : SubSeq(s, 1, m)[i] = s[i]
<1>1. \A i \in 1 .. m : s[i] \in S
  OBVIOUS
<1>2. m \in Int /\ 1 \in Int /\ m - 1 + 1 = m /\ m \in Nat
  OBVIOUS
<1>3. /\ SubSeq(s, 1, m) \in Seq(S)
      /\ Len(SubSeq(s, 1, m)) = IF 1 <= m THEN m - 1 + 1 ELSE 0
      /\ \A i \in 1 .. (m - 1 + 1) : SubSeq(s, 1, m)[i] = s[1 + i - 1]
  BY <1>1, <1>2, SubSeqProperties
<1>4. \A i \in 1 .. m : 1 + i - 1 = i
  OBVIOUS
<1>5. m = 0 \/ 1 <= m
  BY <1>2
<1> QED BY <1>2, <1>3, <1>4, <1>5

LEMMA LineBytes ==
  ASSUME NEW x \in Line
  PROVE  /\ x \in Bytes /\ Len(x) \in Nat
         /\ \A i \in 1 .. Len(x) : x[i] \in Byte /\ x[i] # LF /\ x[i] # NUL
<1>1. x \in Bytes /\ Len(x) \in Nat /\ \A i \in 1 .. Len(x) : x[i] \in Byte
  BY DEF Line, Bytes
<1> QED BY <1>1, StorageConstants, ByteClasses

LEMMA StripTwice ==
  ASSUME NEW x \in Line
  PROVE  /\ StripEnd(x) \in Line
         /\ StripEnd(StripEnd(x)) = StripEnd(x)
         /\ StripEnd(Append(x, LF)) = StripEnd(x)
<1>0. /\ x \in Bytes /\ Len(x) \in Nat
      /\ \A i \in 1 .. Len(x) : x[i] \in Byte /\ x[i] # LF
  BY LineBytes
<1>1. PICK m \in 0 .. Len(x) :
        /\ StripEnd(x) = SubSeq(x, 1, m)
        /\ m = 0 \/ x[m] \notin {LF, CR}
        /\ \A i \in (m + 1) .. Len(x) : x[i] \in {LF, CR}
  BY <1>0, StripEndOf
<1> DEFINE s == SubSeq(x, 1, m)
<1>2. /\ s \in Line /\ s \in Bytes /\ Len(s) = m /\ m \in Nat
      /\ \A i \in 1 .. m : s[i] = x[i]
  <2>1. s \in Seq(Byte) /\ Len(s) = m /\ \A i \in 1 .. m : s[i] = x[i]
    BY FirstOf DEF Line
  <2>2. s \in Line
    BY <2>1 DEF Line
  <2> HIDE DEF s
  <2> QED BY <1>0, <2>1, <2>2, LineBytes
<1> HIDE DEF s
<1>3. StripEnd(s) = SubSeq(s, 1, m)
  <2>1. m = 0 \/ s[m] \notin {LF, CR}
    BY <1>1, <1>2
  <2>2. m \in 0 .. Len(s) /\ \A i \in (m + 1) .. Len(s) : s[i] \in {LF, CR}
    BY <1>2
  <2> QED BY <1>2, <2>1, <2>2, StripEndAt
<1>4. SubSeq(s, 1, m) = s
  BY <1>2 DEF Line
<1>5. StripEnd(Append(x, LF)) = s
  <2> DEFINE y == Append(x, LF)
             S == Byte \cup {LF, NUL}
  <2>1. x \in Seq(S) /\ LF \in S
    BY <1>0 DEF Bytes
  <2>2. /\ y \in Seq(S) /\ Len(y) = Len(x) + 1 /\ y[Len(x) + 1] = LF
        /\ \A i \in 1 .. Len(x) : y[i] = x[i]
    <3> HIDE DEF S
    <3> QED BY <2>1, AppendProperties
  <2>3. y \in Bytes
    BY <2>2 DEF Bytes
  <2> HIDE DEF y, S
  <2>4. m \in 0 .. Len(y) /\ (m = 0 \/ y[m] \notin {LF, CR})
    BY <1>0, <1>1, <2>2
  <2>5. \A i \in (m + 1) .. Len(y) : y[i] \in {LF, CR}
    <3> TAKE i \in (m + 1) .. Len(y)
    <3>1. i = Len(x) + 1 \/ (i \in (m + 1) .. Len(x) /\ i \in 1 .. Len(x))
      BY <1>0, <2>2
    <3> QED BY <1>1, <2>2, <3>1
  <2>6. StripEnd(y) = SubSeq(y, 1, m)
    BY <2>3, <2>4, <2>5, StripEndAt
  <2> DEFINE t == SubSeq(y, 1, m)
  <2>7. t \in Seq(S) /\ Len(t) = m /\ \A i \in 1 .. m : t[i] = y[i]
    BY <2>2, <2>4, FirstOf
  <2> HIDE DEF t
  <2>8. t = s
    <3>1. s \in Seq(S)
      BY <1>2 DEF S, Bytes
    <3>2. \A i \in 1 .. Len(t) : t[i] = s[i]
      BY <1>0, <1>2, <2>2, <2>7
    <3> QED BY <1>2, <2>7, <3>1, <3>2, SeqEqual
  <2> QED BY <2>6, <2>8 DEF y, t
<1> QED BY <1>1, <1>2, <1>3, <1>4, <1>5 DEF s

(* A line holds no NUL to cut it at.                                         *)
LEMMA StrdupLine ==
  ASSUME NEW x \in Line
  PROVE  strdup(x) = x
<1>0. /\ Len(x) \in Nat /\ DOMAIN x = 1 .. Len(x)
      /\ \A i \in 1 .. Len(x) : x[i] # NUL
  BY LineBytes DEF Line
<1> DEFINE T == {Len(x)} \cup {i - 1 : i \in {j \in DOMAIN x : x[j] = NUL}}
<1>1. T = {Len(x)}
  BY <1>0
<1>2. strdup(x) = SubSeq(x, 1, Min(T))
  BY DEF strdup
<1> HIDE DEF T
<1>3. Min(T) = Len(x)
  <2>1. T \in SUBSET Nat /\ T # {}
    BY <1>0, <1>1
  <2>2. Min(T) \in T
    BY <2>1, MinNat
  <2> QED BY <1>1, <2>2
<1>4. SubSeq(x, 1, Len(x)) = x
  BY DEF Line
<1> QED BY <1>2, <1>3, <1>4

(* A text that was saved is read back but for the carriage returns at the    *)
(* ends of its lines.                                                        *)
LEMMA LoadOfText ==
  ASSUME NEW text \in Seq(Line), text # << >>
  PROVE  /\ buffer_load_file(FileBytes(text)) = WithoutCR(text)
         /\ WithoutCR(WithoutCR(text)) = WithoutCR(text)
<1> DEFINE file == FileBytes(text)
           got == getline(file)
<1>0. DOMAIN text = 1 .. Len(text) /\ \A k \in 1 .. Len(text) : text[k] \in Line
  OBVIOUS
<1>1. got = [k \in 1 .. Len(text) |-> Append(text[k], LF)]
  BY LinesOfText
<1>2. file \notin {Absent, << >>}
  <2>1. file \in Bytes
    BY TextPlaced
  <2>2. file # << >>
    <3>1. PICK p : Placed(text, p)
      BY TextPlaced
    <3>2. 1 \in 1 .. Len(text)
      BY EmptySeq
    <3>3. p[1] \in 1 .. Len(file)
      BY <3>1, <3>2 DEF Placed
    <3> HIDE DEF file
    <3> QED BY <2>1, <3>3 DEF Bytes
  <2> QED BY <2>1, <2>2, StorageConstants DEF Bytes
<1>3. buffer_load_file(file) = [k \in DOMAIN got |-> strdup(StripEnd(got[k]))]
  <2> HIDE DEF file
  <2> QED BY <1>2 DEF buffer_load_file
<1> HIDE DEF got
<1>4. \A k \in 1 .. Len(text) : strdup(StripEnd(Append(text[k], LF))) = StripEnd(text[k])
  BY <1>0, StripTwice, StrdupLine
<1>5. \A k \in 1 .. Len(text) : got[k] = Append(text[k], LF)
  BY <1>1
<1>6. DOMAIN got = 1 .. Len(text)
  BY <1>1
<1>7. [k \in DOMAIN got |-> strdup(StripEnd(got[k]))] = [k \in DOMAIN text |-> StripEnd(text[k])]
  BY <1>0, <1>4, <1>5, <1>6
<1>8. \A k \in 1 .. Len(text) : StripEnd(StripEnd(text[k])) = StripEnd(text[k])
  BY <1>0, StripTwice
<1>9. WithoutCR(WithoutCR(text)) = WithoutCR(text)
  BY <1>0, <1>8 DEF WithoutCR
<1> QED BY <1>3, <1>7, <1>9 DEF WithoutCR


(* A line that getline returns holds no newline before its last byte.        *)
LEMMA LineEndsFirst ==
  ASSUME NEW file \in Bytes, NEW k \in 1 .. Len(file)
  PROVE  LET s == SubSeq(file, LineEnds(file)[k - 1] + 1, LineEnds(file)[k])
         IN  s \in Bytes /\ \A i \in 1 .. Len(s) : i < Len(s) => s[i] # LF
<1> DEFINE b == LineEnds(file)[k - 1]
           e == LineEnds(file)[k]
           s == SubSeq(file, b + 1, e)
           T == {Len(file)} \cup {i \in Newlines(file) : i > b}
<1>0. Len(file) \in Nat /\ DOMAIN file = 1 .. Len(file)
  BY DEF Bytes
<1>1. k \in 0 .. Len(file) /\ k - 1 \in 0 .. Len(file) /\ k # 0
  BY <1>0
<1>2. b \in 0 .. Len(file) /\ e \in 0 .. Len(file) /\ e = Min(T)
  BY <1>1, LineEndsType
<1> HIDE DEF b, e
<1>3. T \in SUBSET Nat /\ T # {}
  BY <1>0 DEF Newlines
<1>4. \A y \in T : e <= y
  <2> HIDE DEF T
  <2> QED BY <1>2, <1>3, MinNat
<1>5. s \in Bytes
  <2>1. b + 1 \in Nat \ {0} /\ e \in Int /\ e <= Len(file)
    BY <1>0, <1>2
  <2> QED BY <2>1, PartType
<1>6. /\ Len(s) = IF b + 1 <= e THEN e - (b + 1) + 1 ELSE 0
      /\ \A i \in 1 .. (e - (b + 1) + 1) : s[i] = file[b + 1 + i - 1]
  <2> DEFINE S == Byte \cup {LF, NUL}
  <2>1. \A i \in (b + 1) .. e : file[i] \in S
    BY <1>0, <1>2 DEF Bytes
  <2>2. b + 1 \in Int /\ e \in Int
    BY <1>2
  <2> HIDE DEF S
  <2> QED BY <2>1, <2>2, SubSeqProperties
<1> HIDE DEF s
<1>7. ASSUME NEW i \in 1 .. Len(s), i < Len(s) PROVE s[i] # LF
  <2> DEFINE j == b + i
  <2>1. /\ b + 1 <= e /\ i \in 1 .. (e - (b + 1) + 1) /\ b + 1 + i - 1 = j
        /\ j \in 1 .. Len(file) /\ j > b /\ ~(e <= j)
    BY <1>0, <1>2, <1>6, <1>7
  <2>2. s[i] = file[j]
    BY <1>6, <2>1
  <2> HIDE DEF j
  <2>3. j \notin T
    BY <1>4, <2>1
  <2> QED BY <1>0, <2>1, <2>2, <2>3 DEF Newlines
<1> QED BY <1>5, <1>7 DEF s, b, e

(* What reading makes of such a line is a line of a text.                    *)
LEMMA StripsNewline ==
  ASSUME NEW s \in Bytes, \A i \in 1 .. Len(s) : i < Len(s) => s[i] # LF
  PROVE  /\ StripEnd(s) \in Bytes
         /\ \A i \in 1 .. Len(StripEnd(s)) : StripEnd(s)[i] # LF
<1>0. Len(s) \in Nat
  BY DEF Bytes
<1>1. PICK m \in 0 .. Len(s) :
        StripEnd(s) = SubSeq(s, 1, m) /\ (m = 0 \/ s[m] \notin {LF, CR})
  BY StripEndOf
<1>2. /\ SubSeq(s, 1, m) \in Bytes /\ Len(SubSeq(s, 1, m)) = m
      /\ \A i \in 1 .. m : SubSeq(s, 1, m)[i] = s[i]
  BY FirstOf DEF Bytes
<1>3. ASSUME NEW i \in 1 .. m PROVE s[i] # LF
  <2>1. i = m \/ (i < Len(s) /\ i \in 1 .. Len(s))
    BY <1>0
  <2> QED BY <1>1, <2>1
<1> QED BY <1>1, <1>2, <1>3

LEMMA CutIsLine ==
  ASSUME NEW s \in Bytes, \A i \in 1 .. Len(s) : s[i] # LF
  PROVE  strdup(s) \in Line
<1> DEFINE T == {Len(s)} \cup {i - 1 : i \in {j \in DOMAIN s : s[j] = NUL}}
           m == Min(T)
<1>0. Len(s) \in Nat /\ DOMAIN s = 1 .. Len(s) /\ T \in SUBSET Nat /\ T # {} /\ Len(s) \in T
  BY DEF Bytes
<1>1. strdup(s) = SubSeq(s, 1, m)
  BY DEF strdup
<1>2. m \in T /\ \A y \in T : m <= y
  <2> HIDE DEF T
  <2> QED BY <1>0, MinNat
<1> HIDE DEF m
<1>3. m \in 0 .. Len(s)
  BY <1>0, <1>2
<1>4. ASSUME NEW i \in 1 .. m PROVE s[i] \in Byte
  <2>1. i \in 1 .. Len(s) /\ ~(m <= i - 1)
    BY <1>0, <1>3
  <2>2. i - 1 \notin T
    BY <1>2, <2>1
  <2>3. s[i] # NUL
    BY <1>0, <2>1, <2>2
  <2>4. s[i] \in Byte \cup {LF, NUL} /\ s[i] # LF
    BY <2>1 DEF Bytes
  <2> QED BY <2>3, <2>4
<1>5. /\ SubSeq(s, 1, m) \in Bytes /\ Len(SubSeq(s, 1, m)) = m
      /\ \A i \in 1 .. m : SubSeq(s, 1, m)[i] = s[i]
  BY <1>3, FirstOf DEF Bytes
<1> DEFINE t == SubSeq(s, 1, m)
<1>6. t \in Seq(Byte)
  <2>1. t \in Seq(Byte \cup {LF, NUL}) /\ \A i \in 1 .. Len(t) : t[i] \in Byte
    BY <1>4, <1>5 DEF Bytes
  <2> HIDE DEF t
  <2> QED BY <2>1
<1> QED BY <1>1, <1>6 DEF Line

LEMMA LoadedLines ==
  ASSUME NEW file \in Bytes \cup {Absent}
  PROVE  buffer_load_file(file) \in Seq(Line)
<1>1. CASE file \in {Absent, << >>}
  <2>1. << >> \in Line
    BY DEF Line
  <2>2. buffer_load_file(file) = << << >> >>
    BY <1>1 DEF buffer_load_file
  <2> QED BY <2>1, <2>2
<1>2. CASE file \notin {Absent, << >>}
  <2> DEFINE got == getline(file)
  <2>1. got \in Seq(Bytes) /\ got # << >> /\ Len(got) <= Len(file)
    BY <1>2, GetlineType
  <2>2. buffer_load_file(file) = [k \in DOMAIN got |-> strdup(StripEnd(got[k]))]
    BY <1>2 DEF buffer_load_file
  <2>3. \A k \in DOMAIN got :
          got[k] = SubSeq(file, LineEnds(file)[k - 1] + 1, LineEnds(file)[k])
    BY DEF getline
  <2> HIDE DEF got
  <2>4. DOMAIN got = 1 .. Len(got) /\ Len(got) \in Nat
    BY <2>1
  <2>5. ASSUME NEW k \in 1 .. Len(got) PROVE strdup(StripEnd(got[k])) \in Line
    <3>1. file \in Bytes /\ Len(file) \in Nat
      BY <1>2 DEF Bytes
    <3>2. k \in 1 .. Len(file)
      BY <2>1, <2>4, <3>1
    <3>3. got[k] \in Bytes /\ \A i \in 1 .. Len(got[k]) : i < Len(got[k]) => got[k][i] # LF
      BY <2>3, <2>4, <3>1, <3>2, LineEndsFirst
    <3> DEFINE s == StripEnd(got[k])
    <3>4. s \in Bytes /\ \A i \in 1 .. Len(s) : s[i] # LF
      BY <3>3, StripsNewline
    <3> HIDE DEF s
    <3>5. strdup(s) \in Line
      BY <3>4, CutIsLine
    <3> QED BY <3>5 DEF s
  <2> QED BY <2>2, <2>4, <2>5
<1> QED BY <1>1, <1>2

-----------------------------------------------------------------------------
(* The file.                                                                 *)

(* While a save is under way the file holds what has been written of it.     *)
FileInv ==
  /\ lines \in Seq(Bytes) /\ lines # << >>
  /\ disk \in Bytes \cup {Absent}
  /\ pc \in {"write", "close"} => disk = SubSeq(FileBytes(lines), 1, sent)
  /\ pc = "write" => sent \in 0 .. (Len(FileBytes(lines)) - 1)
  /\ pc = "close" => sent = Len(FileBytes(lines))

(* The promise is about the same bytes.                                      *)
LEMMA SameFileBytes == \A text : Keeping!FileBytes(text) = FileBytes(text)
BY DEF Keeping!FileBytes, FileBytes, Keeping!FlattenSeq, FlattenSeq

LEMMA SameLoad == \A file : Keeping!buffer_load_file(file) = buffer_load_file(file)
BY DEF Keeping!buffer_load_file, buffer_load_file, Keeping!getline, getline,
       Keeping!Newlines, Newlines, Keeping!LineEnds, LineEnds,
       Keeping!StripEnd, StripEnd, Keeping!strdup, strdup,
       Keeping!Min, Min, Keeping!Max, Max, Keeping!Cardinality, Cardinality,
       Keeping!IsFiniteSet, IsFiniteSet

LEMMA BeginningsAreCutShort ==
  ASSUME NEW n \in 0 .. Len(FileBytes(lines))
  PROVE  SubSeq(FileBytes(lines), 1, n) \in Keeping!CutShort
BY SameFileBytes DEF Keeping!CutShort, Keeping!Prefixes

(* A write call ends within the text.                                        *)
LEMMA WriteEndIn ==
  ASSUME NEW bytes \in Bytes, NEW n \in 0 .. (Len(bytes) - 1)
  PROVE  WriteEnd(bytes, n) \in n .. Len(bytes)
<1> DEFINE T == {Len(bytes)} \cup {i - 1 : i \in {j \in (n + 1) .. Len(bytes) :
                                                    bytes[j] = LF}}
<1>1. Len(bytes) \in Nat /\ T \in SUBSET Nat /\ T # {} /\ T \subseteq n .. Len(bytes)
  BY DEF Bytes
<1>2. WriteEnd(bytes, n) = IF bytes[n + 1] = LF THEN n + 1 ELSE Min(T)
  BY DEF WriteEnd
<1> HIDE DEF T
<1>3. Min(T) \in n .. Len(bytes)
  <2>1. Min(T) \in T
    BY <1>1, MinNat
  <2> QED BY <1>1, <2>1
<1>4. n + 1 \in n .. Len(bytes)
  BY <1>1
<1> QED BY <1>2, <1>3, <1>4

(* What has been written is a beginning of the text.                         *)
LEMMA OverwrittenIs ==
  ASSUME FileInv, pc = "write", NEW n \in sent .. Len(FileBytes(lines))
  PROVE  /\ Overwritten(n) = SubSeq(FileBytes(lines), 1, n)
         /\ Overwritten(n) \in Bytes
<1> DEFINE bytes == FileBytes(lines)
<1>1. bytes \in Bytes /\ Len(bytes) \in Nat \ {0}
  BY FileBytesType DEF FileInv
<1>2. sent \in 0 .. (Len(bytes) - 1) /\ disk = SubSeq(bytes, 1, sent)
  BY DEF FileInv
<1>3. Overwritten(n) = SubSeq(bytes, 1, n) \o SubSeq(disk, n + 1, Len(disk))
  BY DEF Overwritten
<1>4. n \in Nat /\ sent <= n /\ n <= Len(bytes) /\ sent \in Nat /\ sent <= Len(bytes)
  BY <1>1, <1>2
<1> HIDE DEF bytes
<1>5. Len(disk) = sent
  BY <1>1, <1>2, <1>4 DEF Bytes
<1>6. SubSeq(disk, n + 1, Len(disk)) = << >>
  <2>1. n + 1 \in Int /\ Len(disk) \in Int /\ Len(disk) < n + 1
    BY <1>4, <1>5
  <2> QED BY <2>1, SubSeqEmpty
<1>7. SubSeq(bytes, 1, n) \in Bytes
  BY <1>1, <1>4, PartType
<1>8. SubSeq(bytes, 1, n) \o << >> = SubSeq(bytes, 1, n)
  BY <1>7, ConcatEmptySeq DEF Bytes
<1> QED BY <1>3, <1>6, <1>7, <1>8 DEF bytes

(* What a step does to the file is what the promise allows.                  *)
Kept == FileInv' /\ [Keeping!Next]_(Keeping!vars)

LEMMA InitFile == Init => FileInv /\ Keeping!Start
<1> SUFFICES ASSUME Init PROVE FileInv /\ Keeping!Start
  OBVIOUS
<1>1. lines = << << >> >> /\ dirty = FALSE /\ pc = "ended" /\ disk \in InitFiles
  BY DEF Init
<1>2. << << >> >> \in Seq(Bytes)
  BY DEF Bytes
<1>3. FileInv
  BY <1>1, <1>2, ProcessConstants DEF FileInv
<1> QED BY <1>1, <1>3 DEF Keeping!Start

(* A step outside a save that changes neither text nor file, and neither     *)
(* opens the file nor ends a process that has opened it.                     *)
LEMMA IdleKeeps ==
  ASSUME FileInv, pc \notin {"write", "close"}, pc' \notin {"write", "close"},
         pc \in {"ended", "signal", "load"} <=> pc' \in {"ended", "signal", "load"},
         UNCHANGED <<lines, dirty, disk>>
  PROVE  Kept
BY DEF Kept, FileInv, Keeping!vars

(* The process ends, and the file is left as it is.                          *)
LEMMA EndKeeps ==
  ASSUME FileInv, pc # "ended", pc' = "ended", UNCHANGED <<lines, dirty, disk>>
  PROVE  Kept
<1>1. FileInv'
  BY DEF FileInv
<1>2. CASE pc \in {"signal", "load"}
  BY <1>1, <1>2 DEF Kept, Keeping!vars
<1>3. CASE pc \notin {"signal", "load", "write", "close"}
  BY <1>1, <1>3 DEF Kept, Keeping!Next, Keeping!End, Keeping!CutShort
<1>4. CASE pc \in {"write", "close"}
  <2>1. sent \in 0 .. Len(FileBytes(lines)) /\ disk = SubSeq(FileBytes(lines), 1, sent)
    <3>1. Len(FileBytes(lines)) \in Nat
      BY FileBytesType DEF FileInv
    <3> QED BY <1>4, <3>1 DEF FileInv
  <2>2. disk \in Keeping!CutShort
    BY <2>1, BeginningsAreCutShort
  <2>3. Keeping!End
    BY <1>4, <2>2 DEF Keeping!End
  <2> QED BY <1>1, <2>3 DEF Kept, Keeping!Next
<1> QED BY <1>2, <1>3, <1>4

LEMMA StartKeepsFile ==
  ASSUME FileInv,
         \/ InstallHandlers \/ LoadFile \/ get_window_size("winsize", "getfl")
         \/ GetFlags \/ GetFlagsFails \/ SetFlags \/ SaveTermios \/ SetRaw
         \/ EnterScreen
  PROVE  Kept
<1> USE DEF Goto, textVars, diskVars
<1>1. CASE InstallHandlers
  BY <1>1, IdleKeeps DEF InstallHandlers
<1>2. CASE LoadFile
  <2>1. /\ pc = "load" /\ pc' = "winsize"
        /\ lines' = buffer_load_file(disk) /\ dirty' = FALSE /\ disk' = disk
    BY <1>2 DEF LoadFile
  <2>2. FileInv'
    BY <2>1, LoadType DEF FileInv
  <2>3. Keeping!Open
    BY <2>1, SameLoad DEF Keeping!Open
  <2> QED BY <2>2, <2>3 DEF Kept, Keeping!Next
<1>3. CASE get_window_size("winsize", "getfl")
  <2>1. CASE stdout_tty
    BY <1>3, <2>1, IdleKeeps DEF get_window_size
  <2>2. CASE ~stdout_tty
    BY <1>3, <2>2, EndKeeps DEF get_window_size, die, End
  <2> QED BY <2>1, <2>2
<1>4. CASE GetFlags
  BY <1>4, IdleKeeps DEF GetFlags
<1>5. CASE GetFlagsFails
  BY <1>5, EndKeeps DEF GetFlagsFails, End
<1>6. CASE SetFlags
  BY <1>6, IdleKeeps DEF SetFlags
<1>7. CASE SaveTermios
  <2>1. CASE stdin_tty
    BY <1>7, <2>1, IdleKeeps DEF SaveTermios
  <2>2. CASE ~stdin_tty
    BY <1>7, <2>2, EndKeeps DEF SaveTermios, die, End
  <2> QED BY <2>1, <2>2
<1>8. CASE SetRaw
  BY <1>8, IdleKeeps DEF SetRaw
<1>9. CASE EnterScreen
  BY <1>9, IdleKeeps DEF EnterScreen
<1> QED BY <1>1, <1>2, <1>3, <1>4, <1>5, <1>6, <1>7, <1>8, <1>9

LEMMA LoopKeepsFile ==
  ASSUME FileInv,
         \/ EditKey \/ OtherKey \/ ExitKey \/ EndOfBatch
         \/ get_window_size("resize", "poll")
         \/ SaveKeyFails \/ Read
  PROVE  Kept
<1> USE DEF Goto, textVars, diskVars
<1>1. CASE EditKey
  <2>1. /\ pc = "keys" /\ pc' = "keys" /\ lines' \in EditTexts /\ dirty' = TRUE
        /\ UNCHANGED disk
    BY <1>1 DEF EditKey, Key
  <2>2. lines' \in Seq(Seq(Byte)) \ {<< >>}
    BY <2>1, ProcessConstants
  <2>3. lines' \in Seq(Bytes) \ {<< >>}
    <3>1. \A line \in Seq(Byte) : line \in Bytes
      BY DEF Bytes
    <3> QED BY <2>2, <3>1
  <2>4. FileInv'
    BY <2>1, <2>3 DEF FileInv
  <2>5. Keeping!Edit
    BY <2>1, <2>2 DEF Keeping!Edit
  <2> QED BY <2>4, <2>5 DEF Kept, Keeping!Next
<1>2. CASE OtherKey \/ ExitKey
  BY <1>2, IdleKeeps DEF OtherKey, ExitKey, Key
<1>3. CASE EndOfBatch
  BY <1>3, IdleKeeps DEF EndOfBatch
<1>4. CASE get_window_size("resize", "poll")
  <2>1. CASE stdout_tty
    BY <1>4, <2>1, IdleKeeps DEF get_window_size
  <2>2. CASE ~stdout_tty
    BY <1>4, <2>2, EndKeeps DEF get_window_size, die, End
  <2> QED BY <2>1, <2>2
<1>5. CASE SaveKeyFails
  BY <1>5, IdleKeeps DEF SaveKeyFails, Key
<1>6. CASE Read
  BY <1>6, IdleKeeps DEF Read
<1> QED BY <1>1, <1>2, <1>3, <1>4, <1>5, <1>6

(* A save: the promise's file changes with its last step alone.              *)
LEMMA SaveKeepsFile ==
  ASSUME FileInv, SaveKey \/ WriteCall \/ WriteFails \/ Close
  PROVE  Kept
<1> DEFINE bytes == FileBytes(lines)
<1>0. bytes \in Bytes /\ Len(bytes) \in Nat \ {0}
  BY FileBytesType DEF FileInv
<1>1. CASE SaveKey
  <2>1. /\ pc = "keys" /\ pc' = "write" /\ before' = disk /\ sent' = 0
        /\ disk' = << >> /\ UNCHANGED <<lines, dirty>>
    BY <1>1 DEF SaveKey, Key, Goto, textVars
  <2>2. << >> = SubSeq(bytes, 1, 0) /\ << >> \in Bytes
    <3>1. SubSeq(bytes, 1, 0) = << >>
      BY SubSeqEmpty
    <3> QED BY <3>1 DEF Bytes
  <2>3. FileInv'
    <3>1. FileBytes(lines)' = bytes
      BY <2>1 DEF FileBytes
    <3>2. 0 \in 0 .. (Len(bytes) - 1)
      BY <1>0
    <3> HIDE DEF bytes
    <3> QED BY <2>1, <2>2, <3>1, <3>2 DEF FileInv
  <2>4. UNCHANGED Keeping!vars
    BY <2>1 DEF Keeping!vars
  <2> QED BY <2>3, <2>4 DEF Kept
<1>2. CASE WriteCall
  <2>1. /\ pc = "write" /\ sent' = WriteEnd(bytes, sent)
        /\ disk' = Overwritten(sent')
        /\ pc' = IF sent' = Len(bytes) THEN "close" ELSE "write"
        /\ UNCHANGED <<before, lines, dirty>>
    BY <1>2 DEF WriteCall, Goto, textVars
  <2>2. sent \in 0 .. (Len(bytes) - 1)
    BY <2>1 DEF FileInv
  <2>3. sent' \in sent .. Len(bytes)
    BY <1>0, <2>1, <2>2, WriteEndIn
  <2>4. disk' = SubSeq(bytes, 1, sent') /\ disk' \in Bytes
    BY <2>1, <2>3, OverwrittenIs
  <2>5. FileBytes(lines)' = bytes
    BY <2>1 DEF FileBytes
  <2>6. sent' # Len(bytes) => sent' \in 0 .. (Len(bytes) - 1)
    BY <1>0, <2>2, <2>3
  <2>7. FileInv'
    <3> HIDE DEF bytes
    <3> QED BY <2>1, <2>4, <2>5, <2>6 DEF FileInv
  <2>8. UNCHANGED Keeping!vars
    BY <2>1 DEF Keeping!vars
  <2> QED BY <2>7, <2>8 DEF Kept
<1>3. CASE WriteFails
  <2>1. /\ pc = "write" /\ pc' = "keys"
        /\ sent' \in sent .. (WriteEnd(bytes, sent) - 1)
        /\ disk' = Overwritten(sent') /\ UNCHANGED <<before, lines, dirty>>
    BY <1>3 DEF WriteFails, Goto
  <2>2. sent \in 0 .. (Len(bytes) - 1)
    BY <2>1 DEF FileInv
  <2>3. sent' \in sent .. Len(bytes)
    <3>1. WriteEnd(bytes, sent) \in sent .. Len(bytes)
      BY <1>0, <2>2, WriteEndIn
    <3> HIDE DEF bytes
    <3> QED BY <1>0, <2>1, <2>2, <3>1
  <2>4. disk' = SubSeq(bytes, 1, sent') /\ disk' \in Bytes
    BY <2>1, <2>3, OverwrittenIs
  <2>5. sent' \in 0 .. Len(bytes)
    BY <1>0, <2>2, <2>3
  <2>6. disk' \in Keeping!CutShort
    BY <2>4, <2>5, BeginningsAreCutShort
  <2>7. FileInv'
    BY <2>1, <2>4 DEF FileInv
  <2>8. Keeping!SaveFails
    BY <2>1, <2>6 DEF Keeping!SaveFails
  <2> QED BY <2>7, <2>8 DEF Kept, Keeping!Next
<1>4. CASE Close
  <2>1. /\ pc = "close" /\ pc' = "keys" /\ UNCHANGED <<disk, lines>>
        /\ dirty' = FALSE \/ UNCHANGED dirty
    BY <1>4 DEF Close, Goto, diskVars
  <2>2. disk = bytes
    <3>1. disk = SubSeq(bytes, 1, Len(bytes))
      BY <2>1 DEF FileInv
    <3> HIDE DEF bytes
    <3>2. SubSeq(bytes, 1, Len(bytes)) = bytes
      BY <1>0 DEF Bytes
    <3> QED BY <3>1, <3>2
  <2>3. FileInv'
    BY <2>1 DEF FileInv
  <2>4. CASE dirty' = FALSE
    <3>1. Keeping!Save
      BY <2>1, <2>2, <2>4, SameFileBytes DEF Keeping!Save
    <3> QED BY <2>3, <3>1 DEF Kept, Keeping!Next
  <2>5. CASE UNCHANGED dirty
    <3>1. Len(bytes) \in 0 .. Len(bytes) /\ disk = SubSeq(bytes, 1, Len(bytes))
      BY <1>0, <2>1 DEF FileInv
    <3>2. disk \in Keeping!CutShort
      BY <3>1, BeginningsAreCutShort
    <3>3. Keeping!SaveFails
      BY <2>1, <2>5, <3>2 DEF Keeping!SaveFails
    <3> QED BY <2>3, <3>3 DEF Kept, Keeping!Next
  <2> QED BY <2>1, <2>4, <2>5
<1> QED BY <1>1, <1>2, <1>3, <1>4

LEMMA EndKeepsFile ==
  ASSUME FileInv,
         \/ Destroy \/ Free \/ ExitMain \/ CallFails \/ handle_sigint
         \/ Killed \/ Exec
  PROVE  Kept
<1> USE DEF textVars, diskVars
<1>1. CASE Destroy
  BY <1>1, IdleKeeps DEF Destroy, Goto
<1>2. CASE Free
  BY <1>2, IdleKeeps DEF Free, Goto
<1>3. CASE ExitMain
  BY <1>3, EndKeeps DEF ExitMain, End
<1>4. CASE CallFails
  BY <1>4, EndKeeps DEF CallFails, die, End
<1>5. CASE handle_sigint
  BY <1>5, EndKeeps DEF handle_sigint, End
<1>6. CASE Killed /\ pc # "write"
  BY <1>6, EndKeeps DEF Killed, End
<1>7. CASE Killed /\ pc = "write"
  <2> DEFINE bytes == FileBytes(lines)
  <2>0. bytes \in Bytes /\ Len(bytes) \in Nat \ {0}
    BY FileBytesType DEF FileInv
  <2>1. PICK n \in sent .. WriteEnd(bytes, sent) : disk' = Overwritten(n)
    BY <1>7 DEF Killed
  <2>2. pc' = "ended" /\ UNCHANGED <<lines, dirty>>
    BY <1>7 DEF Killed, End
  <2>3. sent \in 0 .. (Len(bytes) - 1)
    BY <1>7 DEF FileInv
  <2>4. n \in sent .. Len(bytes) /\ n \in 0 .. Len(bytes)
    <3>1. WriteEnd(bytes, sent) \in sent .. Len(bytes)
      BY <2>0, <2>3, WriteEndIn
    <3> HIDE DEF bytes
    <3> QED BY <2>0, <2>1, <2>3, <3>1
  <2>5. disk' = SubSeq(bytes, 1, n) /\ disk' \in Bytes
    BY <1>7, <2>1, <2>4, OverwrittenIs
  <2>6. disk' \in Keeping!CutShort
    BY <2>4, <2>5, BeginningsAreCutShort
  <2>7. FileInv'
    BY <2>2, <2>5 DEF FileInv
  <2>8. Keeping!End
    BY <1>7, <2>2, <2>6 DEF Keeping!End
  <2> QED BY <2>7, <2>8 DEF Kept, Keeping!Next
<1>8. CASE Exec
  BY <1>8, IdleKeeps DEF Exec
<1> QED BY <1>1, <1>2, <1>3, <1>4, <1>5, <1>6, <1>7, <1>8

LEMMA StepKeepsFile == FileInv /\ [Next]_vars => Kept
<1> SUFFICES ASSUME FileInv, [Next]_vars PROVE Kept
  OBVIOUS
<1>1. CASE Next
  BY <1>1, StartKeepsFile, LoopKeepsFile, SaveKeepsFile, EndKeepsFile
     DEF Next, Step
<1>2. CASE UNCHANGED vars
  BY <1>2 DEF vars, textVars, diskVars, Kept, FileInv, FileBytes, Keeping!vars
<1> QED BY <1>1, <1>2

(* Over any number of processes, with calls that fail, signals and kills     *)
(* between any two of them, the file is replaced by the text as a whole, or  *)
(* left as it was or with a beginning of the text.                           *)
THEOREM SavesAlwaysKept == Spec => SavesKept
<1>1. FileInv /\ [Next]_vars => FileInv' /\ [Keeping!Next]_(Keeping!vars)
  BY StepKeepsFile DEF Kept
<1> QED BY <1>1, InitFile, PTL DEF Spec, SavesKept, Keeping!Promise

-----------------------------------------------------------------------------
(* Reading back.                                                             *)

(* The lines of the text hold neither newlines nor NULs.                     *)
ReadInv == FileInv /\ lines \in Seq(Line) /\ ReadsBack

(* A step that changes neither text nor file, and reaches no state where     *)
(* they agree from one where they may not.                                   *)
LEMMA ReadsOn ==
  ASSUME ReadInv, FileInv', UNCHANGED <<lines, dirty, disk>>,
         status' \in {status, "Save failed"},
         \/ pc \in Steps \ {"signal", "load", "write", "close"}
         \/ pc' \notin Steps \ {"signal", "load", "write", "close"}
  PROVE  ReadInv'
BY DEF ReadInv, ReadsBack

LEMMA StepReads == ReadInv /\ [Next]_vars => ReadInv'
<1> SUFFICES ASSUME ReadInv, [Next]_vars PROVE ReadInv'
  OBVIOUS
<1>0. FileInv' /\ FileInv
  BY StepKeepsFile DEF ReadInv, Kept
<1>1. CASE LoadFile
  <2>1. lines' = buffer_load_file(disk) /\ UNCHANGED disk
    BY <1>1 DEF LoadFile, diskVars
  <2>2. lines' \in Seq(Line)
    BY <1>0, <2>1, LoadedLines DEF FileInv
  <2> QED BY <1>0, <2>1, <2>2 DEF ReadInv, ReadsBack
<1>2. CASE EditKey
  <2>1. lines' \in EditTexts /\ dirty' = TRUE
    BY <1>2 DEF EditKey
  <2>2. lines' \in Seq(Line)
    BY <2>1, ProcessConstants DEF Line
  <2> QED BY <1>0, <2>1, <2>2 DEF ReadInv, ReadsBack
<1>3. CASE SaveKey \/ WriteCall
  <2>1. pc' \in {"write", "close"} /\ UNCHANGED lines
    BY <1>3 DEF SaveKey, WriteCall, Key, Goto, textVars
  <2> QED BY <1>0, <2>1 DEF ReadInv, ReadsBack
<1>4. CASE WriteFails
  <2>1. status' = "Save failed" /\ UNCHANGED lines
    BY <1>4 DEF WriteFails
  <2> QED BY <1>0, <2>1 DEF ReadInv, ReadsBack
<1>5. CASE Close
  <2>1. pc = "close" /\ UNCHANGED <<lines, disk>>
    BY <1>5 DEF Close, diskVars
  <2> DEFINE bytes == FileBytes(lines)
  <2>2. bytes \in Bytes /\ disk = SubSeq(bytes, 1, Len(bytes))
    BY <1>0, <2>1, FileBytesType DEF FileInv
  <2>3. disk = bytes
    <3> HIDE DEF bytes
    <3>1. SubSeq(bytes, 1, Len(bytes)) = bytes
      BY <2>2 DEF Bytes
    <3> QED BY <2>2, <3>1
  <2>4. lines \in Seq(Line) /\ lines # << >>
    BY <1>0 DEF ReadInv, FileInv
  <2>5. WithoutCR(buffer_load_file(disk)) = WithoutCR(lines)
    BY <2>3, <2>4, LoadOfText
  <2> QED BY <1>0, <2>1, <2>4, <2>5 DEF ReadInv, ReadsBack
<1>6. CASE \/ InstallHandlers \/ get_window_size("winsize", "getfl")
           \/ GetFlags \/ GetFlagsFails \/ SetFlags \/ SaveTermios \/ SetRaw
           \/ EnterScreen \/ CallFails \/ handle_sigint
  BY <1>0, <1>6, ReadsOn
     DEF InstallHandlers, get_window_size, GetFlags, GetFlagsFails, SetFlags,
         SaveTermios, SetRaw, EnterScreen, CallFails, handle_sigint, die, End, Goto,
         textVars, diskVars, Steps
<1>7. CASE \/ OtherKey \/ ExitKey \/ EndOfBatch \/ SaveKeyFails \/ Read
           \/ get_window_size("resize", "poll")
           \/ Destroy \/ Free \/ ExitMain \/ Exec
  BY <1>0, <1>7, ReadsOn
     DEF OtherKey, ExitKey, EndOfBatch, SaveKeyFails, Read, get_window_size, Destroy,
         Free, ExitMain, Exec, Key, die, End, Goto, textVars, diskVars, Steps
<1>8. CASE Killed
  <2>1. pc' = "ended" /\ UNCHANGED lines
    BY <1>8 DEF Killed, End, textVars
  <2> QED BY <1>0, <2>1 DEF ReadInv, ReadsBack, Steps
<1>9. CASE UNCHANGED vars
  BY <1>0, <1>9 DEF vars, textVars, diskVars, ReadInv, ReadsBack
<1> QED BY <1>1, <1>2, <1>3, <1>4, <1>5, <1>6, <1>7, <1>8, <1>9 DEF Next, Step

(* A text that looks unmodified, and whose last save did not fail, is read   *)
(* back from its file but for the carriage returns at the ends of lines,     *)
(* whatever the file held and however it came to hold it.                    *)
THEOREM AlwaysReadsBack == Spec => []ReadsBack
<1>1. Init => ReadInv
  <2> SUFFICES ASSUME Init PROVE ReadInv
    OBVIOUS
  <2>1. lines = << << >> >> /\ pc = "ended"
    BY DEF Init
  <2>2. << << >> >> \in Seq(Line)
    BY DEF Line
  <2> QED BY <2>1, <2>2, InitFile DEF ReadInv, ReadsBack, Steps
<1>2. ReadInv => ReadsBack
  BY DEF ReadInv
<1> QED BY <1>1, <1>2, StepReads, PTL DEF Spec

=============================================================================
