--------------------------- MODULE TestValidation ----------------------------
(***************************************************************************)
(* How the lines a program writes to descriptor 3 are compared with the    *)
(* expected outputs of the test cases: testcase_parsing and                *)
(* validate_test_cases.  A line is a token, trimmed; Blank is a line of    *)
(* white space, and also the "" that stands for a line that is missing.    *)
(***************************************************************************)
EXTENDS Naturals, Sequences, SequencesExt, FiniteSetsExt

CONSTANTS Blank, Lines  \* Lines: what a line may be

Nonblank(lines) ==
  LET kept[n \in 0..Len(lines)] ==
        IF n = 0 THEN <<>>
        ELSE IF lines[n] = Blank THEN kept[n - 1] ELSE Append(kept[n - 1], lines[n])
  IN  kept[Len(lines)]

\* testcase_parsing and the flat_map of validate_test_cases.
Expected(cases) ==
  FlattenSeq([k \in DOMAIN cases |-> Nonblank(cases[k].output)])

\* fd3_output.get(i).unwrap_or("")
LineAt(lines, i) == IF i \in DOMAIN lines THEN lines[i] ELSE Blank

(***************************************************************************)
(* Run mode                                                                *)
(***************************************************************************)
\* str::trim of a whole text: no blank lines at its ends.
Trim(lines) ==
  LET text == {j \in DOMAIN lines : lines[j] # Blank}
  IN  IF text = {} THEN <<>> ELSE SubSeq(lines, Min(text), Max(text))

\* Every test case is compared with the one line that has its index.
RunResults(lines, cases) ==
  [k \in DOMAIN cases |->
     [id      |-> cases[k].id,
      result  |-> LineAt(lines, k),
      success |-> Trim(cases[k].output) = Nonblank(<<LineAt(lines, k)>>)]]

(***************************************************************************)
(* Test mode                                                               *)
(***************************************************************************)
\* Plausible bug: blank lines of an expected output are counted.
LineCountAll(case) == Len(case.output)

LineCount(case) == Len(Nonblank(case.output))

\* line_cursor after the first k test cases.
Cursor(cases, k) ==
  LET cursor[n \in 0..Len(cases)] ==
        IF n = 0 THEN 0 ELSE cursor[n - 1] + LineCount(cases[n])
  IN  cursor[k]

\* The test case the i-th expected line belongs to.
FailedCase(cases, i) ==
  LET upto == {k \in DOMAIN cases : i <= Cursor(cases, k)}
  IN  cases[IF upto = {} THEN 1 ELSE Min(upto)]

\* Where the loop over the expected lines returns; after its end, 0.
FirstWrong(lines, expected) ==
  LET wrong == {i \in DOMAIN expected : LineAt(lines, i) # expected[i]}
  IN  IF wrong = {} THEN 0 ELSE Min(wrong)

Detail(case, expected, actual) ==
  [id |-> case.id, expected |-> expected, actual |-> actual]

EndOfOutput == "end_of_output"
==============================================================================
