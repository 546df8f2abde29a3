\* Prompts within, at and above the budget, both policies, windows with and
\* without some that wait, with and without a limit on active requests.
CONSTANTS
  Requests = {r1, r2, r3}
  PromptLens = {1, 2, 5}
  MaxContext = 3
  PrefillBatch = 2
  Budgets = {0, 2}
  Policies = {"fifo", "pack"}
  Limits = {0, 2}
  Lookaheads = {2, 3}
  ForceEvery = 2
SPECIFICATION LiveSpec
PROPERTIES TakesRight NotStarved
CHECK_DEADLOCK FALSE
