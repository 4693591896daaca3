CONSTANTS
    Initial = Initial
    Generated = Generated
    UserNames = {u1}
    Annotations = {a1}
    NoneValue = NoneValue
    MaxEnv = 2
SPECIFICATION Spec
PROPERTY ConversationNotResurrected
