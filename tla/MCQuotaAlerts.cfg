SPECIFICATION Spec
CONSTANTS
    Lanes = {l1, l2}
    Sessions = {l1}
    Full = 2
    Choices <- SomeChoices
    MaxSent = 2
    Unreadable = Unreadable
CONSTRAINT LossSettled
INVARIANT TypeOK
PROPERTIES AlertsOncePerEpisode RestoredFollowsDepleted CrossingsAnnounced
