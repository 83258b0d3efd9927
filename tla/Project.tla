------------------------------ MODULE Project ------------------------------
(***************************************************************************)
(* What the finder (src/src/finder.c) takes from the file system: the root  *)
(* of the project, the rules of its .gitignore files and the list of its    *)
(* files.                                                                   *)
(*                                                                         *)
(* A path is the sequence of its names, a name a sequence of bytes.  The    *)
(* directories and the .gitignore files do not change; which files there    *)
(* are, present, does.                                                      *)
(***************************************************************************)
EXTENDS Utf8, SequencesExt

CONSTANTS Space, Tab,     \* the blanks of a line of .gitignore
          Slash, Bang, Hash, Star,
          Dirs,           \* the directories, their paths from "/"
          GitDirs,        \* those that hold a directory .git
          Git, Gitignore, \* the names .git and .gitignore
          IgnoreLines     \* the lines of each directory's .gitignore

Name == Seq(Byte \ {Slash}) \ {<< >>}
Path == Seq(Name)

ASSUME ProjectConstants ==
  /\ {Space, Tab, Slash, Bang, Hash, Star} \subseteq Byte
  /\ Dirs \subseteq Path /\ IsFiniteSet(Dirs)
  /\ \A dir \in Dirs : \A n \in 0 .. Len(dir) : SubSeq(dir, 1, n) \in Dirs
  /\ GitDirs \subseteq Dirs
  /\ Git \in Name /\ Gitignore \in Name
  /\ IgnoreLines \in [Dirs -> Seq(Seq(Byte))]

(* What can be a file: it lies in a directory.                               *)
Files == {path \in Path : path \notin Dirs /\ path # << >> /\ Front(path) \in Dirs}

(* The bytes of a path, its names joined by path_join.                       *)
Spell(path) ==
  IF path = << >> THEN << >>
  ELSE Tail(FlattenSeq([i \in DOMAIN path |-> <<Slash>> \o path[i]]))

Ancestors(path) == {SubSeq(path, 1, n) : n \in 0 .. Len(path)}

HasProjectRoot(dir) == Ancestors(dir) \cap GitDirs # {}

(* The nearest directory, from dir up, that holds .git.                      *)
find_project_root(dir) ==
  CHOOSE root \in Ancestors(dir) \cap GitDirs :
    \A other \in Ancestors(dir) \cap GitDirs : Len(other) <= Len(root)

-----------------------------------------------------------------------------
(* The rules of a .gitignore.                                                *)

trim_whitespace(line) ==
  LET kept == {i \in 1 .. Len(line) : line[i] \notin {Space, Tab}}
  IN  IF kept = {} THEN << >> ELSE SubSeq(line, Min(kept), Max(kept))

BeginsWith(line, byte) == line # << >> /\ line[1] = byte

(* The rules of a line: none for a blank line, a comment or a lone "!" or    *)
(* "/", else one.                                                            *)
parse_gitignore_line(line, base) ==
  LET trimmed  == trim_whitespace(line)
      negated  == BeginsWith(trimmed, Bang)
      positive == IF negated THEN Tail(trimmed) ELSE trimmed
      anchored == BeginsWith(positive, Slash)
      relative == IF anchored THEN Tail(positive) ELSE positive
      dir_only == relative # << >> /\ Last(relative) = Slash
      pattern  == IF dir_only THEN Front(relative) ELSE relative
  IN  IF BeginsWith(trimmed, Hash) \/ pattern = << >> THEN << >>
      ELSE << [pattern |-> pattern, base |-> base, negated |-> negated,
               dir_only |-> dir_only, anchored |-> anchored,
               has_slash |-> \E i \in 1 .. Len(pattern) : pattern[i] = Slash] >>

(* fnmatch, for patterns of ordinary bytes and "*"; with pathname a "*"      *)
(* stands for no "/".                                                        *)
fnmatch(pattern, text, pathname) ==
  LET matches[p \in 1 .. (Len(pattern) + 1), t \in 1 .. (Len(text) + 1)] ==
        IF p > Len(pattern) THEN t > Len(text)
        ELSE IF pattern[p] = Star
          THEN \/ matches[p + 1, t]
               \/ /\ t <= Len(text)
                  /\ ~(pathname /\ text[t] = Slash)
                  /\ matches[p, t + 1]
          ELSE t <= Len(text) /\ text[t] = pattern[p] /\ matches[p + 1, t + 1]
  IN  matches[1, 1]

(* A pattern with a slash is matched from the directory of its .gitignore,   *)
(* another against the last name, wherever the path is.                      *)
rule_matches(rule, path, is_dir) ==
  /\ rule.dir_only => is_dir
  /\ IF rule.has_slash \/ rule.anchored
       THEN /\ IsStrictPrefix(rule.base, path)
            /\ fnmatch(rule.pattern,
                       Spell(SubSeq(path, Len(rule.base) + 1, Len(path))), TRUE)
       ELSE fnmatch(rule.pattern, Last(path), FALSE)

(* The last rule that matches decides.                                       *)
is_ignored(rules, path, is_dir) ==
  LET matching == {i \in 1 .. Len(rules) : rule_matches(rules[i], path, is_dir)}
  IN  matching # {} /\ ~rules[Max(matching)].negated

-----------------------------------------------------------------------------
(* The scan.                                                                 *)

(* The rules of the .gitignore of directory root/dir.                        *)
load_gitignore(root, dir, present) ==
  IF root \o dir \o <<Gitignore>> \notin present THEN << >>
  ELSE FlattenSeq([i \in DOMAIN IgnoreLines[root \o dir] |->
                     parse_gitignore_line(IgnoreLines[root \o dir][i], dir)])

(* The names in a directory, in the order readdir happens to give them.      *)
readdir(dir, present) ==
  FoldSet(LAMBDA name, names : Append(names, name), << >>,
          {Last(path) : path \in {p \in present \cup Dirs :
                                    p # << >> /\ Front(p) = dir}}
          \cup (IF dir \in GitDirs THEN {Git} ELSE {}))

Rule == [pattern : Seq(Byte), base : Path, negated : BOOLEAN, dir_only : BOOLEAN,
         anchored : BOOLEAN, has_slash : BOOLEAN]

(* Variant: the rules of a directory stay when it is left.                   *)
KeepRules(rules, len) == rules

ignore_list_truncate(rules, len) == SubSeq(rules, 1, len)

(* The files a scan has found so far, and the rules it goes by.              *)
Listing == [files : Seq(Path), rules : Seq(Rule)]

(* An entry of the directory root/dir; scan[path] scans one that lies in it. *)
scan_entry(scan, root, dir, state, name) ==
  LET path   == Append(dir, name)
      is_dir == root \o path \in Dirs
  IN  IF name = Git \/ is_ignored(state.rules, path, is_dir) THEN state
      ELSE IF is_dir THEN scan[path][state]
      ELSE [state EXCEPT !.files = Append(@, path)]

(* scan_project_dir from the root: every file that is not ignored, depth     *)
(* first.  A directory adds its own rules to those of the ones above while   *)
(* it is scanned.                                                            *)
scan_project(root, present) ==
  LET scan[dir \in {d \in Path : root \o d \in Dirs}] ==
        [above \in Listing |->
           LET Visit(state, name) == scan_entry(scan, root, dir, state, name)
               own  == load_gitignore(root, dir, present)
               done == FoldLeft(Visit, [above EXCEPT !.rules = @ \o own],
                                readdir(root \o dir, present))
           IN  [done EXCEPT !.rules = ignore_list_truncate(@, Len(above.rules))]]
  IN  scan[<< >>][[files |-> << >>, rules |-> << >>]].files

=============================================================================
