SPECIFICATION Spec
CONSTANTS
  RuleCases <- MCRuleCases
  PlanCases <- MCPlanCases
  MonthCases <- MCMonthCases
  HorizonCases <- MCHorizonCases
  ChargeCases <- MCChargeCases
  AnalyticsCases <- MCAnalyticsCases
  EnvelopeCases <- MCEnvelopeCases
  ReleaseCases <- MCReleaseCases
  DeploymentCases <- MCDeploymentCases
INVARIANTS
  OccurrencesAgree
  PlansAgree
  BalanceReplacesPlans
  SavingsFollowForecast
  GoalViewsAgree
  FixedTotalsAgree
  NoOperationLost
  EnvelopeViewsAgree
  FragmentsToldOnce
  DeploymentsRecover
\* a calculation answers once
CHECK_DEADLOCK FALSE
