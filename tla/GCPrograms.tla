----------------------------- MODULE GCPrograms ----------------------------
(***************************************************************************)
(* The programs of the repository that use a GCClient, of which one runs:  *)
(* the bench of the mock servers, with calls in any order; one of the      *)
(* tests of src/test on that bench; or the example, on the real service.   *)
(***************************************************************************)
EXTENDS GCTests, ExampleProgram

VARIABLE program

testingVars == <<server, test, made>>
exampleOnly == <<programVars, accountingVars>>
programsVars == <<testVars, exampleOnly, program>>

NoTest == server = "unreachable" /\ made = 0 /\ test = CHOOSE t \in PayloadTests : TRUE

NoExample ==
  /\ line = 0 /\ round = 1 /\ price_json = NoAnswer /\ cancels = <<>>
  /\ exit = "none" /\ form = "none" /\ active = {} /\ executed = 0 /\ misled = 0

ProgramsInit ==
  \/ program = "bench" /\ BenchInit /\ NoTest /\ NoExample
  \/ program = "test" /\ TestInit /\ NoExample
  \/ program = "example" /\ ExampleInit /\ NoTest

RunBench ==
  program = "bench" /\ BenchNext /\ UNCHANGED <<test, made, exampleOnly, program>>

RunTest == program = "test" /\ TestNext /\ UNCHANGED <<exampleOnly, program>>

RunExample ==
  program = "example" /\ ProgramStep /\ UNCHANGED <<testingVars, program>>

Service(step) ==
  program = "example" /\ Serves(step) /\ UNCHANGED <<testingVars, program>>

ProgramsNext == RunBench \/ RunTest \/ RunExample \/ Service(ServerStep)

(* A program goes on after a call, and every exchange comes to an end.     *)
ProgramsSpec ==
  /\ ProgramsInit /\ [][ProgramsNext]_programsVars
  /\ WF_programsVars(RunTest)
  /\ WF_programsVars(RunExample) /\ WF_programsVars(Service(Exchange))

(* With the server of functional_correct_server_test.cpp a call of the     *)
(* bench, whose arguments are valid, fails for want of a login only,       *)
(* whatever an earlier server has left undone.                             *)
CorrectServerSucceeds ==
  program = "bench" /\ pc = "idle" /\ server = "correct" /\ result.op # "none" =>
    \/ result.status = "ok"
    \/ /\ result.status = "error"
       /\ where \in {"validate_auth_payload", "validate_session_header"}
       /\ ~HasHeader

(* No test waits for ever, and the example ends, whatever fails.           *)
ProgramsEnd ==
  /\ program = "test" => <>TestDone
  /\ program = "example" => <>(exit # "none")
============================================================================
