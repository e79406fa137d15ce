SPECIFICATION Spec
CONSTANTS
  Outcomes = {"o1"}
  Evidences = {"e1"}
  MinDraft = 2
  MinItems = 2
  MaxItems = 3
  MaxChanges = 1
  MaxVersion = 4
  MaxPlans = 2
INVARIANTS TypeOK PlanValid ViewsAgree EngagementIsRecorded
PROPERTIES CutPlanWaits
