---------------------------- MODULE MCEvaluation ----------------------------
EXTENDS PreEvaluation, TLC
Section(header, complete, checked, notes) ==
    [header |-> header, complete |-> complete, checked |-> checked, notes |-> notes]
Others == {"pandas", "numpy", "scipy", "sklearn", "plotting_visualization", "academic_scholarship",
           "jupyter_notebooks", "coding_concept", "user_defined_functions", "following_instructions",
           "genai", "function_calling"}
MCRubric ==
    <<"pandas", "numpy", "scipy", "sklearn", "plotting_visualization", "code_formatting",
      "academic_scholarship", "jupyter_notebooks", "coding_concept", "user_defined_functions",
      "following_instructions", "genai", "function_calling", "general_feedback">>
MCSections ==
    [code_formatting |->
        {Section(TRUE, TRUE, {"blankMany"}, {"ambiguous", "plagiarism"}),
         Section(TRUE, TRUE, {"blankGood", "blankMany"}, {"short"}),
         Section(TRUE, TRUE, {"notAlphabetized"}, {"filler", "descriptive"}),
         Section(TRUE, FALSE, {"blankGood"}, {}),
         Section(TRUE, TRUE, {"unknown"}, {"prose"})},
     general_feedback |->
        {Section(TRUE, TRUE, {"okay", "alphabetized", "namingGood"}, {"short"}),
         Section(FALSE, TRUE, {"excellent"}, {"prose"}),
         Section(TRUE, TRUE, {}, {})}]
    @@ [c \in Others |-> {Section(TRUE, TRUE, {}, {"prose"})}]
Plain == [alphabetized |-> TRUE, atTop |-> TRUE, names |-> 0, unused |-> FALSE, interpretation |-> TRUE,
          citations |-> TRUE, markdown |-> TRUE, errors |-> FALSE, disallowed |-> FALSE,
          foreign |-> FALSE, e303 |-> FALSE, fixed |-> FALSE]
MCNotebooks ==
    {Plain, [Plain EXCEPT !.alphabetized = FALSE, !.names = 1, !.e303 = TRUE],
     [Plain EXCEPT !.foreign = TRUE, !.unused = TRUE, !.interpretation = FALSE, !.citations = FALSE, !.fixed = TRUE]}
MCDimensions == {[key |-> "exact", points |-> 6], [key |-> "none", points |-> 0],
                 [key |-> "unknown", points |-> 3]}
=============================================================================
