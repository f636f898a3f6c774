----------------------------- MODULE Dockerfile -----------------------------
(***************************************************************************)
(* How a Dockerfile and a .dockerignore are read, and what COPY and ADD    *)
(* then put where.  A line is [cont, words]: whether it ends in a          *)
(* backslash, and its words.  A word is the tuple of the pieces between    *)
(* the separators its instruction looks for: the equal sign, the slashes   *)
(* of a path, the colons of a kernel; the JSON array of strings is the     *)
(* word <<"[", ...>>.  The name of an image is one word.                   *)
(***************************************************************************)
EXTENDS Naturals, Sequences, SequencesExt

CONSTANTS
  Context,    \* path -> content, the files that COPY and ADD can take
  NameEnds    \* <<name, end>> where the name, being longer, ends in the other

(* mergeContinuations: blank lines and comments are dropped only after the *)
(* lines have been joined.                                                 *)
Keep(done, words) ==
  IF words = <<>> \/ words[1][1] = "#" THEN done ELSE Append(done, words)

Join(acc, line) ==
  IF line.cont THEN [acc EXCEPT !.open = @ \o line.words]
  ELSE [done |-> Keep(acc.done, acc.open \o line.words), open |-> <<>>]
Joined(lines) == FoldLeft(Join, [done |-> <<>>, open |-> <<>>], lines)

(* Mutant: an instruction that the end of the file interrupts is dropped.  *)
MergeEnded(lines) == Joined(lines).done

mergeContinuations(lines) == Keep(Joined(lines).done, Joined(lines).open)

-----------------------------------------------------------------------------
Wrong == [kind |-> "wrong"]

IsExec(rest) == Len(rest) = 1 /\ rest[1][1] = "["
Args(rest) == IF IsExec(rest) THEN Tail(rest[1]) ELSE FlattenSeq(rest)
From(rest, i) == SubSeq(rest, i, Len(rest))

(* parseFrom: the platform is found anywhere and taken off only in front.  *)
parseFrom(rest) ==
  LET options == SelectSeq(rest, LAMBDA w : w[1] = "--platform")
      clean == IF rest[1][1] = "--platform" /\ Len(rest) > 1 THEN Tail(rest) ELSE rest
  IN  [kind |-> "FROM", image |-> clean[1],
       platform |-> IF options = <<>> THEN <<>> ELSE Tail(options[1])]

parseCopy(rest) ==
  LET bare == SelectSeq(rest, LAMBDA w : w[1] # "--from")
  IN  IF Len(bare) < 2 THEN Wrong
      ELSE [kind |-> "COPY", sources |-> Front(bare), dest |-> Last(bare)]

parseAdd(rest) ==
  IF Len(rest) < 2 THEN Wrong
  ELSE [kind |-> "ADD", sources |-> Front(rest), dest |-> Last(rest)]

(* The key is all that stands before the first separator. *)
Assignment(kind, rest) ==
  LET i == Min({j \in DOMAIN rest : Len(rest[j]) > 1})
  IN  [kind |-> kind, key |-> Append(FlattenSeq(SubSeq(rest, 1, i - 1)), rest[i][1]),
       value |-> Tail(rest[i]) \o FlattenSeq(From(rest, i + 1))]
Assigns(rest) == \E w \in Range(rest) : Len(w) > 1

parseEnv(rest) ==
  IF Assigns(rest) THEN Assignment("ENV", rest)
  ELSE IF Len(rest) < 2 THEN Wrong
  ELSE [kind |-> "ENV", key |-> rest[1], value |-> FlattenSeq(Tail(rest))]

parseLabel(rest) == IF Assigns(rest) THEN Assignment("LABEL", rest) ELSE Wrong

parseExpose(rest) ==
  [kind |-> "EXPOSE", port |-> IF Assigns(rest) THEN FlattenSeq(rest)
                               ELSE Append(FlattenSeq(rest), "tcp")]

(* An empty array has no first element to take. *)
parseVolume(rest) ==
  IF rest = <<<<"[">>>> THEN [kind |-> "panic"]
  ELSE [kind |-> "VOLUME",
        path |-> IF IsExec(rest) THEN <<Args(rest)[1]>> ELSE FlattenSeq(rest)]

parseShell(rest) ==
  IF IsExec(rest) THEN [kind |-> "SHELL", args |-> Args(rest)] ELSE Wrong

(* Options, then an optional CMD, then a command; when there are only      *)
(* options they are taken for the command.                                 *)
parseHealthCheck(rest) ==
  LET options == {"--interval", "--timeout", "--retries", "--start-period"}
      plain == {i \in DOMAIN rest : rest[i][1] \notin options}
      bare == rest # <<>> /\ plain # {} /\ Min(plain) = Len(rest) /\ Last(rest) = <<"CMD">>
  IN  IF bare THEN Wrong ELSE [kind |-> "HEALTHCHECK"]

parseRun(rest) == [kind |-> "RUN", args |-> Args(rest)]
parseCmd(kind, rest) == [kind |-> kind, args |-> Args(rest)]

(* What these are given is taken as it stands, an array too. *)
parseKernel(rest) == [kind |-> "KERNEL", args |-> FlattenSeq(rest)]
parseWorkdir(kind, rest) == [kind |-> kind, args |-> FlattenSeq(rest)]

(* parseLine; what follows the keyword may be missing only for HEALTHCHECK.*)
parseLine(words) ==
  LET kind == words[1][1]
      rest == Tail(words)
  IN  IF kind = "HEALTHCHECK" THEN parseHealthCheck(rest)
      ELSE IF rest = <<>> THEN Wrong
      ELSE CASE kind = "FROM" -> parseFrom(rest)
             [] kind = "COPY" -> parseCopy(rest)
             [] kind = "ADD" -> parseAdd(rest)
             [] kind = "ENV" -> parseEnv(rest)
             [] kind = "LABEL" -> parseLabel(rest)
             [] kind = "EXPOSE" -> parseExpose(rest)
             [] kind = "VOLUME" -> parseVolume(rest)
             [] kind = "SHELL" -> parseShell(rest)
             [] kind = "RUN" -> parseRun(rest)
             [] kind = "KERNEL" -> parseKernel(rest)
             [] kind \in {"CMD", "ENTRYPOINT"} -> parseCmd(kind, rest)
             [] kind \in {"WORKDIR", "USER", "ARG"} -> parseWorkdir(kind, rest)
             [] OTHER -> Wrong

(* Parse, which stops at the first line it cannot read. *)
Parse(lines) ==
  LET merged == mergeContinuations(lines)
      instrs == [i \in DOMAIN merged |-> parseLine(merged[i])]
      bad == {i \in DOMAIN instrs : instrs[i].kind \in {"wrong", "panic"}}
  IN  [result |-> IF bad = {} THEN "ok" ELSE instrs[Min(bad)].kind, instrs |-> instrs]

-----------------------------------------------------------------------------
(* dockerignore.go.  A pattern with a slash is compared with the path and  *)
(* the directories above it, another one, as the set of names it stands    *)
(* for, with the last name of the path.                                    *)
Base(path) == IF path = <<>> THEN "." ELSE Last(path)

matchPattern(pattern, path) ==
  IF pattern.path # <<>> THEN IsPrefix(pattern.path, path)
  ELSE Base(path) \in pattern.names

(* Mutant: the first pattern that matches decides. *)
FirstDecides(path, patterns) ==
  LET hits == {i \in DOMAIN patterns : matchPattern(patterns[i], path)}
  IN  hits # {} /\ ~patterns[Min(hits)].negate

ShouldIgnore(path, patterns) ==
  LET hits == {i \in DOMAIN patterns : matchPattern(patterns[i], path)}
  IN  hits # {} /\ ~patterns[Max(hits)].negate

-----------------------------------------------------------------------------
(* copyWithIgnore.  A file is given the name of the destination only when  *)
(* that already ends in its own name.                                      *)
Files(src) == {f \in DOMAIN Context : IsPrefix(src, f)}
EndsIn(dest, name) == dest # <<>> /\ (Last(dest) = name \/ <<Last(dest), name>> \in NameEnds)

Taken(src, patterns) ==
  IF src \in DOMAIN Context THEN {src}
  ELSE {f \in Files(src) : \A k \in Len(src) + 1 .. Len(f) :
                             ~ShouldIgnore(SubSeq(f, 1, k), patterns)}

Target(f, src, dest) ==
  IF f # src THEN dest \o From(f, Len(src) + 1)
  ELSE IF EndsIn(dest, Base(src)) THEN dest ELSE Append(dest, Base(src))

File(path, data) == [path |-> path, kind |-> "file", data |-> data]

(* No directory can be written to and nothing lies below a file. *)
CanWrite(fs, path) ==
  \A f \in DOMAIN fs : /\ ~IsStrictPrefix(path, f)
                       /\ IsStrictPrefix(f, path) => fs[f].kind = "link"
CanMake(fs, dest) == \A f \in DOMAIN fs : IsStrictPrefix(f, dest) => fs[f].kind = "link"

IsURL(src) == src # <<>> /\ src[1] \in {"http:", "https:"}
Skipped(instr, src, patterns) ==
  ShouldIgnore(src, patterns) \/ (instr.kind = "ADD" /\ IsURL(src))
=============================================================================
