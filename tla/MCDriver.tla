------------------------------ MODULE MCDriver ------------------------------
(***************************************************************************)
(* Two processes, in one directory or in one each, every mode, every       *)
(* single fault of the input, files that do not open and a linker that may *)
(* fail.                                                                   *)
(***************************************************************************)
EXTENDS Driver, TLC

CONSTANTS p1, p2, d1, d2

\* Each mode and output name; a dump before the output, before an early end and
\* without the deploy part.
MCArgvs == {{}, {"o"}, {"o", "dump"}, {"runtime-input"}, {"onlyRt", "dump"},
            {"o", "runtime-input", "onlyRt", "dump"}}
MCHardeningArgvs == {{"check-reentrancy"}, {"check-reentrancy", "enable-upgrade", "onlyRt", "dump"}}
MCInputs == {{}} \union {{f} : f \in InputFaults}
MCGoodInputs == {{}}

\* Processes and directories are interchangeable.
MCSymmetry == Permutations({p1, p2}) \union Permutations({d1, d2})
=============================================================================
