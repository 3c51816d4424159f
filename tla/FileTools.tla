------------------------------- MODULE FileTools -------------------------------
(***************************************************************************)
(* The file tools of an agent: read_file, write_file, edit_file and grep   *)
(* (src/tools/read_file.rs, write_file.rs, edit.rs, grep.rs), on one file   *)
(* of the workspace.  Calls that write run alone in their run, and          *)
(* subagents only read, so one call is under way at a time; but a           *)
(* background process or an editor may write the file at any moment, and   *)
(* edit_file reads and writes it in two steps.                             *)
(*                                                                         *)
(* A text is a sequence of characters: "sp", "cr" and "nl" are white, every *)
(* other one is a word, all one byte wide.                                 *)
(***************************************************************************)
EXTENDS Naturals, Sequences, FiniteSets, SequencesExt, FiniteSetsExt

CONSTANTS
  Paths,         \* bound: arguments: [absolute, up, parent, within, directory]; parent and
                 \* within: the canonical parent, the canonical path is in the workspace
  Words,         \* the characters that are not white
  Files,         \* bound: what others write into the file
  Missing,       \* no file
  OldTexts,      \* bound: arguments of edit_file, besides what was read
  NewTexts,      \* bound: arguments of edit_file and write_file
  LineCounts,    \* bound: line_count of read_file
  MaxLineCount,  \* MAX_READ_FILE_LINE_COUNT
  MaxOutput,     \* DEFAULT_MAX_OUTPUT_BYTES of grep
  MaxLine        \* bound: start_line of read_file

White == {"sp", "cr", "nl"}
FileTexts == Seq(White \cup Words)

ASSUME FileToolsAssumption ==
  /\ MaxLineCount \in Nat \ {0} /\ LineCounts \subseteq Nat \ {0}
  /\ MaxOutput \in Nat /\ MaxLine \in Nat
  /\ \A t \in Files \cup OldTexts \cup NewTexts : t \in FileTexts /\ t # Missing

VARIABLES
  file,      \* the text on disk, or Missing
  writing,   \* edit_file is between its read and its write
  lastCall   \* history: the last call and its answer

fileVars == << file, writing, lastCall >>

-----------------------------------------------------------------------------
(***************************************************************************)
(* Texts.                                                                  *)
(***************************************************************************)

Blank(t) == ToSet(t) \subseteq White

\* str::trim.
Trimmed(t) ==
  LET ink == {i \in DOMAIN t : t[i] \notin White} IN
  IF ink = {} THEN << >> ELSE SubSeq(t, Min(ink), Max(ink))

\* indentation_prefix.
IndentationPrefix(line) ==
  LET ink == {i \in DOMAIN line : line[i] \notin White} IN
  IF ink = {} THEN line ELSE SubSeq(line, 1, Min(ink) - 1)

\* str::split('\n').
AddToLines(b, c) == IF c = "nl" THEN [done |-> Append(b.done, b.line), line |-> << >>]
                    ELSE [b EXCEPT !.line = Append(@, c)]
SplitLines(t) ==
  LET b == FoldLeft(AddToLines, [done |-> << >>, line |-> << >>], t)
  IN Append(b.done, b.line)

\* join("\n").
AddLine(t, line) == t \o << "nl" >> \o line
JoinLines(s) == IF s = << >> THEN << >> ELSE Tail(FoldLeft(AddLine, << >>, s))

\* str::lines: a last empty line is none, and the cr before a line's nl is not of it.
Lines(t) ==
  LET split == SplitLines(t)
      Line(i) == IF i < Len(split) /\ split[i] # << >> /\ Last(split[i]) = "cr"
                   THEN Front(split[i]) ELSE split[i]
      kept == IF Last(split) = << >> THEN Len(split) - 1 ELSE Len(split)
  IN [i \in 1 .. kept |-> Line(i)]

At(haystack, needle, i) == SubSeq(haystack, i, i + Len(needle) - 1) = needle

\* The parts of a haystack that are as long as the needle, from the left.
Windows(haystack, needle) ==
  [i \in 1 .. (Len(haystack) + 1 - Len(needle)) |->
     [from |-> i, to |-> i + Len(needle), hit |-> At(haystack, needle, i)]]

\* str::matches: from the left, without overlaps.
AddMatch(found, w) ==
  IF w.hit /\ (found # << >> => Last(found).to <= w.from) THEN Append(found, w) ELSE found
Matches(haystack, needle) == FoldLeft(AddMatch, << >>, Windows(haystack, needle))

\* count_matches.
CountMatches(haystack, needle) ==
  IF needle = << >> \/ Len(needle) > Len(haystack) THEN 0 ELSE Len(Matches(haystack, needle))

\* replacen(.., 1).
ReplaceFirst(haystack, needle, new) ==
  LET i == Matches(haystack, needle)[1].from
  IN SubSeq(haystack, 1, i - 1) \o new \o SubSeq(haystack, i + Len(needle), Len(haystack))

\* normalize_newlines: a cr is a newline, and the nl behind it is not another one.
AddNormalized(b, c) ==
  [text |-> IF c = "nl" /\ b.cr THEN b.text ELSE Append(b.text, IF c = "cr" THEN "nl" ELSE c),
   cr |-> c = "cr"]
NormalizeNewlines(t) == FoldLeft(AddNormalized, [text |-> << >>, cr |-> FALSE], t).text

\* NewlineStyle::detect.
IsCrlf(t) ==
  /\ CountMatches(t, << "cr", "nl" >>) > 0
  /\ CountMatches(t, << "cr", "nl" >>) = CountMatches(t, << "nl" >>)

\* NewlineStyle::apply.
AddRestored(s, c) == s \o (IF c = "nl" THEN << "cr", "nl" >> ELSE << c >>)
Restored(base, t) == IF IsCrlf(base) THEN FoldLeft(AddRestored, << >>, t) ELSE t

-----------------------------------------------------------------------------
(***************************************************************************)
(* fuzzy_replace: the first level with a match decides.                    *)
(***************************************************************************)

Refused(kind) == [kind |-> kind, text |-> << >>]
Replaced(t) == [kind |-> "edited", text |-> t]

TrimmedLines(t) == LET s == SplitLines(t) IN [i \in DOMAIN s |-> Trimmed(s[i])]

\* reindent_replacement.
ReindentReplacement(new, base) ==
  LET lines == SplitLines(new)
      widths == {Len(IndentationPrefix(lines[i])) : i \in {j \in DOMAIN lines : ~Blank(lines[j])}}
      cut == IF widths = {} THEN 0 ELSE Min(widths)
  IN [i \in DOMAIN lines |->
        IF Blank(lines[i]) THEN << >> ELSE base \o SubSeq(lines[i], cut + 1, Len(lines[i]))]

\* base_indentation: that of the first line of the block that is not blank.
BaseIndentation(block) ==
  LET full == {i \in DOMAIN block : ~Blank(block[i])}
  IN IF full = {} THEN << >> ELSE IndentationPrefix(block[Min(full)])

\* Mutant: the last line of the block stays.
MatchEndShort(first, count) == first + count - 2

MatchEnd(first, count) == first + count - 1

\* line_by_line_replace: the block of lines, whatever their indentation.
LineByLineReplace(content, old, new) ==
  LET lines == SplitLines(content)
      wanted == TrimmedLines(Trimmed(old))
      starts == {s \in 1 .. (Len(lines) + 1 - Len(wanted)) :
                   \A k \in DOMAIN wanted : Trimmed(lines[s + k - 1]) = wanted[k]}
      first == Min(starts)
      last == MatchEnd(first, Len(wanted))
      replacement ==
        ReindentReplacement(new, BaseIndentation(SubSeq(lines, first, first + Len(wanted) - 1)))
  IN IF Blank(old) THEN Refused("blank")
     ELSE IF starts = {} THEN Refused("not found")
     ELSE IF Cardinality(starts) > 1 THEN Refused("ambiguous")
     ELSE Replaced(JoinLines(SubSeq(lines, 1, first - 1) \o replacement
                             \o SubSeq(lines, last + 1, Len(lines))))

\* Mutant: only the file is normalized.
OldTextAsItIs(old) == old

NormalizedOldText(old) == NormalizeNewlines(old)

FuzzyReplace(base, old, new) ==
  LET content == NormalizeNewlines(base)
      older == NormalizedOldText(old)
      newer == NormalizeNewlines(new)
      found == << CountMatches(base, old), CountMatches(content, older),
                  CountMatches(content, Trimmed(older)) >>
      levels == {n \in DOMAIN found : found[n] > 0}
      decides == Min(levels)
      byLine == LineByLineReplace(content, older, newer)
  IN IF levels = {}
       THEN [byLine EXCEPT !.text = Restored(base, @)]
     ELSE IF found[decides] > 1 THEN Refused("ambiguous")
     ELSE CASE decides = 1 -> Replaced(ReplaceFirst(base, old, new))
            [] decides = 2 -> Replaced(Restored(base, ReplaceFirst(content, older, newer)))
            [] decides = 3 ->
                 Replaced(Restored(base, ReplaceFirst(content, Trimmed(older), newer)))

-----------------------------------------------------------------------------
(***************************************************************************)
(* The tools.                                                              *)
(***************************************************************************)

FilesInit ==
  /\ file \in Files \cup {Missing}
  /\ writing = FALSE
  /\ lastCall = [tool |-> "none"]

\* A call begins when the one before is answered.
Answers(call) == ~writing /\ lastCall' = call

\* resolve_path: a path is canonical only when something is there, and has to be
\* within the workspace then.
Resolves(p) == ~p.absolute /\ p.within /\ (p.directory \/ file # Missing)

\* resolve_path_for_edit wants a file.
ResolvesForEdit(p) == Resolves(p) /\ ~p.directory

\* resolve_path_for_write: the file may be new, so its parent is looked at; the way
\* to it has no "..".
ResolvesForWrite(p) == ~p.absolute /\ ~p.up /\ p.parent

\* A path that is refused; to read or to write a directory fails as well.
Refuse ==
  /\ \E p \in Paths : ~Resolves(p) \/ ~ResolvesForEdit(p) \/ ~ResolvesForWrite(p)
  /\ Answers([tool |-> "refused"])
  /\ UNCHANGED << file, writing >>

\* The page that the last call has shown, unless the file is another by now.
Shown == lastCall.tool = "read_file" /\ lastCall.base = file

\* Mutant: the next page starts one line later.
ContinuesAtSkipping(last, total) == IF last < total THEN last + 2 ELSE 0

\* "content continues at line"; 0 when the page is the last one.
ContinuesAt(last, total) == IF last < total THEN last + 1 ELSE 0

\* format_range_output.
Page(t, start, count) ==
  LET total == Len(Lines(t))
      last == Min({start - 1 + Min({count, MaxLineCount}), total})
  IN [lines |-> SubSeq(Lines(t), start, last), next |-> ContinuesAt(last, total)]

\* read_file: from the first line, or from where the last page told to go on.
ReadFile(start, count) ==
  LET page == Page(file, start, count)
      before == IF start = 1 THEN << >> ELSE lastCall.pages
  IN
  /\ \E p \in Paths : Resolves(p) /\ ~p.directory
  /\ start # 1 => Shown /\ start = lastCall.next
  /\ Answers([tool |-> "read_file", base |-> file, text |-> JoinLines(page.lines),
              pages |-> before \o page.lines, next |-> page.next])
  /\ UNCHANGED << file, writing >>

\* std::fs::write: done, not begun, or broken off after the file was emptied.
AfterWriting(t) == {t, file, << >>}

\* write_file creates the file or replaces its text; by way of a link that leads
\* elsewhere it writes another file.
WriteFile(t) ==
  /\ \E p \in Paths :
       /\ ResolvesForWrite(p) /\ ~p.directory
       /\ file' \in IF p.within THEN AfterWriting(t) ELSE {file}
  /\ Answers([tool |-> "write_file"])
  /\ UNCHANGED writing

\* Bound: a text that somebody wrote whole; edits of edits are left out.
Editable == Files \cup NewTexts

\* edit_file up to its write.
EditRead(old, new) ==
  LET answer == FuzzyReplace(file, old, new) IN
  /\ \E p \in Paths : ResolvesForEdit(p)
  /\ file \in Editable
  /\ Answers([tool |-> "edit_file", kind |-> answer.kind, base |-> file, old |-> old, new |-> new,
              edited |-> answer.text, shown |-> Shown /\ old = lastCall.text])
  /\ writing' = (answer.kind = "edited")
  /\ UNCHANGED file

\* The write, whatever the file is by now.
EditWrite ==
  /\ writing
  /\ file' \in AfterWriting(lastCall.edited)
  /\ writing' = FALSE
  /\ UNCHANGED lastCall

\* ripgrep, or grep when there is no ripgrep; whatever the program says is the
\* answer of a call that succeeded, unless one that is there cannot be started.
SearchAnswers ==
  {LET tool == IF rg = "missing" THEN fallback ELSE rg
   IN [tool |-> "grep", ok |-> tool # "fails", cut |-> tool = "runs" /\ printed > MaxOutput,
       found |-> tool = "runs" /\ status = 0 /\ printed > 0] :
     rg \in {"runs", "missing", "fails"}, fallback \in {"runs", "missing", "fails"},
     status \in 0 .. 2, printed \in {0, MaxOutput, MaxOutput + 1}}

Grep ==
  /\ \E p \in Paths : Resolves(p)
  /\ \E answer \in SearchAnswers : Answers(answer)
  /\ UNCHANGED << file, writing >>

\* Another process writes or removes the file.
ForeignWrite ==
  /\ file' \in (Files \cup {Missing}) \ {file}
  /\ UNCHANGED << writing, lastCall >>

FilesNext ==
  \/ \E count \in LineCounts : \E start \in 1 .. MaxLine : ReadFile(start, count)
  \/ \E t \in NewTexts : WriteFile(t)
  \/ \E old \in OldTexts : \E new \in NewTexts : EditRead(old, new)
  \/ \E new \in NewTexts : Shown /\ EditRead(lastCall.text, new)
  \/ EditWrite \/ Grep \/ Refuse \/ ForeignWrite

FilesSpec == FilesInit /\ [][FilesNext]_fileVars

-----------------------------------------------------------------------------
Edited == lastCall.tool = "edit_file" /\ lastCall.kind = "edited"

FilesTypeOK ==
  /\ file = Missing \/ file \in FileTexts
  /\ lastCall.tool \in {"none", "read_file", "write_file", "edit_file", "grep", "refused"}
  /\ Edited => lastCall.base # Missing
  /\ writing => Edited

\* The lines of a text without their indentation and the blank ones around them.
Essence(t) == TrimmedLines(Trimmed(NormalizeNewlines(t)))

\* Whichever level of the fallback chain finds it, an edit puts new_text where
\* one block that reads like old_text was and leaves every other character of the
\* file as it was; of indentation and newlines only the replaced block's, and the
\* style of the newlines, may differ (fuzzy_replace, line_by_line_replace).
EditsOneBlock ==
  Edited =>
    LET before == NormalizeNewlines(lastCall.base)
        after == NormalizeNewlines(lastCall.edited)
    IN \E i \in 0 .. Len(before) : \E k \in i .. Len(before) :
         LET rest == Len(before) - k
             put == Len(after) - rest
         IN /\ Essence(SubSeq(before, i + 1, k)) = Essence(lastCall.old)
            /\ put >= i
            /\ SubSeq(after, 1, i) = SubSeq(before, 1, i)
            /\ SubSeq(after, put + 1, Len(after)) = SubSeq(before, k + 1, Len(before))
            /\ Essence(SubSeq(after, i + 1, put)) = Essence(lastCall.new)

\* What read_file has shown can be edited: with a page that is not blank as its
\* old_text, edit_file finds the page in the file it was read from, whatever the
\* newlines of the file and of the page are (a \r before a \r\n is shown as
\* neither and is the exception: format_range_output, fuzzy_replace).
ShownTextIsEditable ==
  lastCall.tool = "edit_file" /\ lastCall.shown /\ ~Blank(lastCall.old) =>
    \/ lastCall.kind \in {"edited", "ambiguous"}
    \/ CountMatches(lastCall.base, << "cr", "cr", "nl" >>) > 0

\* Reading on at the line that read_file names gives every line of a file once,
\* whatever line counts are asked for (format_range_output).
PagesCoverFile ==
  lastCall.tool = "read_file" =>
    LET lines == Lines(lastCall.base) IN
    lastCall.pages = IF lastCall.next = 0 THEN lines ELSE SubSeq(lines, 1, lastCall.next - 1)
=============================================================================
