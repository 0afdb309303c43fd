SPECIFICATION FairSpec
INVARIANTS ReportServedIsWhole ArtifactsFollowPlan CancelTakesHold
PROPERTIES CancelEndsRun RefinesLifecycle
