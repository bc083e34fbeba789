SPECIFICATION FairSpec
CONSTANTS
    QueueMax = 1
    PublishEvery = 1
PROPERTIES
    SubscriptionRestored
