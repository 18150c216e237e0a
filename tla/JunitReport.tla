---------------------------- MODULE JunitReport ----------------------------
(***************************************************************************)
(* The reading of a JUnit report (src/app/utils/junit_parser.py): counters *)
(* are added over all suites, results taken case by case.                  *)
(***************************************************************************)
EXTENDS Integers, Sequences, FiniteSets

\* A suite is [tests, failures, errors, skipped, cases, malformed]; a test
\* case [name, marks], its name a case id or NoCase, its marks the elements
\* failure, error and skipped that it has.
NoCase == 0

Failed == [error |-> TRUE]

Status(marks) ==
    CASE "skipped" \in marks -> "skipped"
      [] "skipped" \notin marks /\ "error" \in marks -> "error"
      [] marks = {"failure"} -> "fail"
      [] OTHER -> "pass"

\* An attribute of the suites, added up.
Total(suites, attribute) ==
    LET sum[n \in 0..Len(suites)] ==
            IF n = 0 THEN 0 ELSE sum[n - 1] + suites[n][attribute]
    IN sum[Len(suites)]

\* Variant: what was skipped has passed.
PassedOrSkipped(total, failed, errors, skipped) == total - failed - errors

Passed(total, failed, errors, skipped) == total - failed - errors - skipped

NamedCases(suite) == {j \in DOMAIN suite.cases : suite.cases[j].name # NoCase}

\* The places <<suite, case>> that have a result.
Places(suites) == UNION {{<<i, j>> : j \in NamedCases(suites[i])} : i \in DOMAIN suites}

ParseJunit(suites) ==
    LET total == Total(suites, "tests")
        failed == Total(suites, "failures")
        errors == Total(suites, "errors")
        skipped == Total(suites, "skipped")
    IN IF \E i \in DOMAIN suites : suites[i].malformed THEN Failed
       ELSE [error |-> FALSE, total |-> total, failed |-> failed + errors, skipped |-> skipped,
             passed |-> Passed(total, failed, errors, skipped),
             entries |-> [p \in Places(suites) |->
                            LET tc == suites[p[1]].cases[p[2]]
                            IN [case |-> tc.name, status |-> Status(tc.marks)]]]
=============================================================================
